---- MODULE Spec2Model ----
(***************************************************************************)
(* FrameReader backend: the in-memory job store, the queue manager that    *)
(* bounds the number of processing jobs, and the pipeline orchestrator     *)
(* that drives one job through download, extraction, the transcription /   *)
(* visual fan-out and assembly.                                            *)
(*                                                                         *)
(* Node runs every piece of synchronous code to completion, so one action  *)
(* is one such piece: a route handler, or the code of processJob between   *)
(* two awaits.  The only piece that is split in two is the end of          *)
(* processJob: a run at pc "finally" has left its try/catch block and has  *)
(* not run its finally block yet.  Nothing else is enabled while a run is  *)
(* there, so the split adds no interleaving; it only makes the store at    *)
(* the moment of the onJobComplete call a state of the model.              *)
(***************************************************************************)
EXTENDS Integers, Sequences, FiniteSets, TLC

\* ------------------------------------------------------------------ bounds

\* Number of jobs the submit handlers create in one behaviour.
MaxJobs == 1

\* The clock runs from 0 to MaxClock.
MaxClock == 1

\* The same two bounds where the collaborators are those of SchedEnv.
MaxSchedJobs == 3

MaxSchedClock == 1

\* Where the sweeper runs: the number of jobs, and how far the clock runs
\* past a job's creation and past the expiry window.
MaxSweepJobs == 2

MaxSweepClock == 1

\* Number of jobs submitted where the admission ceiling is small.
MaxAdmitJobs == 3

\* Number of jobs created where the store's functions are called directly.
MaxStoreJobs == 1
MaxTempJobs == 2
MaxTempClock == 1
MaxBootJobs == 2

\* ------------------------------------------------------- program constants

\* config.maxConcurrentJobs is read from the environment (default 2).
ConcurrencyLimits == {1, 2}

\* config.maxQueueSize is read from the environment: its default, and the
\* small ceilings of a deployment where admission is refused.
DefaultMaxQueueSize == 20

AdmissionCeilings == {1, 2}

\* The expiry window of a finished job, in milliseconds.
JOB_EXPIRY_MS == 30 * 60 * 1000

\* ------------------------------------------------------------------ values

\* null is the empty tuple, a non-null value v is <<v>>.
NULL == <<>>

Some(v) == <<v>>

JobIds == 1..MaxSchedJobs

\* An id that createJob never returned.
UnknownId == 0

AllIds == {UnknownId} \cup JobIds

Terminal == {"complete", "error", "cancelled"}

JobStatus == {"queued", "processing", "complete", "error", "cancelled"}

StageStatus == {"pending", "in_progress", "complete", "skipped", "error"}

StageNames == {"download", "transcription", "visual", "assembly"}

\* What the transcriber and the visual analyzer return when they succeed.
DialogueResult == <<"line">>

ActionResult == <<"action">>

\* ------------------------------------------------------------------- state

VARIABLES
  jobs,          \* jobStore.ts: the Map jobId -> Job (ids are in insertion order)
  nextId,        \* the id the next createJob returns
  now,           \* Date.now()
  maxConcurrentJobs, \* config.maxConcurrentJobs
  maxQueueSize,  \* config.maxQueueSize
  onProcessJob,  \* queueManager.ts: the registered callback, or NULL
  run,           \* per id: the position and the locals of its processJob call
  files          \* the entries of the directory config.tempDir

vars == <<jobs, nextId, now, maxConcurrentJobs, maxQueueSize, onProcessJob, run, files>>

\* --------------------------------------------------------------- job store

\* createJob that leaves the download stage pending for an uploaded file.
createJob_downloadPending(s, id, platform, videoUrl, filePath, t) ==
  (id :> [jobId |-> id,
          videoUrl |-> videoUrl,
          filePath |-> filePath,
          platform |-> platform,
          status |-> "queued",
          stages |-> [download |-> "pending",
                      transcription |-> "pending",
                      visual |-> "pending",
                      assembly |-> "pending"],
          metadata |-> NULL,
          transcription |-> NULL,
          visualAnalysis |-> NULL,
          script |-> NULL,
          error |-> NULL,
          stageErrors |-> {},
          createdAt |-> t,
          completedAt |-> NULL]) @@ s

createJob(s, id, platform, videoUrl, filePath, t) ==
  (id :> [jobId |-> id,
          videoUrl |-> videoUrl,
          filePath |-> filePath,
          platform |-> platform,
          status |-> "queued",
          stages |-> [download |-> IF filePath # NULL THEN "skipped" ELSE "pending",
                      transcription |-> "pending",
                      visual |-> "pending",
                      assembly |-> "pending"],
          metadata |-> NULL,
          transcription |-> NULL,
          visualAnalysis |-> NULL,
          script |-> NULL,
          error |-> NULL,
          stageErrors |-> {},
          createdAt |-> t,
          completedAt |-> NULL]) @@ s

getJob(s, id) == IF id \in DOMAIN s THEN Some(s[id]) ELSE NULL

\* updateJobStatus that stamps completedAt at every change of status.
updateJobStatus_stampsAlways(s, id, status, t) ==
  IF id \notin DOMAIN s THEN s
  ELSE [s EXCEPT ![id].status = status,
                 ![id].completedAt = Some(t)]

updateJobStatus(s, id, status, t) ==
  IF id \notin DOMAIN s THEN s
  ELSE [s EXCEPT ![id].status = status,
                 ![id].completedAt = IF status \in {"complete", "error"}
                                     THEN Some(t) ELSE @]

\* updateJobStage that creates the job it does not find.
updateJobStage_upsert(s, id, stage, stageStatus) ==
  LET s1 == IF id \in DOMAIN s THEN s ELSE createJob_downloadPending(s, id, "unknown", NULL, NULL, 0)
  IN  [s1 EXCEPT ![id].stages[stage] = stageStatus]

\* updateJobStage on one stage map that all jobs share.
updateJobStage_sharedStages(s, id, stage, stageStatus) ==
  IF id \notin DOMAIN s THEN s
  ELSE [j \in DOMAIN s |-> [s[j] EXCEPT !.stages[stage] = stageStatus]]

updateJobStage(s, id, stage, stageStatus) ==
  IF id \notin DOMAIN s THEN s
  ELSE [s EXCEPT ![id].stages[stage] = stageStatus]

setJobMetadata(s, id, metadata) ==
  IF id \notin DOMAIN s THEN s ELSE [s EXCEPT ![id].metadata = Some(metadata)]

setJobTranscription(s, id, transcription) ==
  IF id \notin DOMAIN s THEN s ELSE [s EXCEPT ![id].transcription = Some(transcription)]

setJobVisualAnalysis(s, id, visualAnalysis) ==
  IF id \notin DOMAIN s THEN s ELSE [s EXCEPT ![id].visualAnalysis = Some(visualAnalysis)]

setJobScript(s, id, script) ==
  IF id \notin DOMAIN s THEN s ELSE [s EXCEPT ![id].script = Some(script)]

\* setJobError that leaves the status of a finished job alone.
setJobError_keepsTerminal(s, id, error, t) ==
  IF id \notin DOMAIN s THEN s
  ELSE IF s[id].status \in {"complete", "error", "cancelled"}
       THEN [s EXCEPT ![id].error = Some(error)]
       ELSE [s EXCEPT ![id].error = Some(error),
                      ![id].status = "error",
                      ![id].completedAt = Some(t)]

setJobError(s, id, error, t) ==
  IF id \notin DOMAIN s THEN s
  ELSE [s EXCEPT ![id].error = Some(error),
                 ![id].status = "error",
                 ![id].completedAt = Some(t)]

\* Imported by the orchestrator; records the error of one stage of a job.
setJobStageError(s, id, stage, message) ==
  IF id \notin DOMAIN s THEN s
  ELSE [s EXCEPT ![id].stageErrors = @ \cup {<<stage, message>>}]

\* Array.from(jobs.values()): the ids in insertion order.
RECURSIVE InsertionOrder(_, _)
InsertionOrder(s, id) ==
  IF id \notin JobIds THEN <<>>
  ELSE (IF id \in DOMAIN s THEN <<id>> ELSE <<>>) \o InsertionOrder(s, id + 1)

Filter(seq, Keep(_)) == SelectSeq(seq, Keep)

\* Where a stable ascending sort on createdAt puts id in the sorted sequence.
RECURSIVE InsertSorted(_, _, _)
InsertSorted(s, sorted, id) ==
  IF sorted = <<>> THEN <<id>>
  ELSE LET last == sorted[Len(sorted)] IN
       IF s[last].createdAt - s[id].createdAt <= 0
       THEN Append(sorted, id)
       ELSE Append(InsertSorted(s, SubSeq(sorted, 1, Len(sorted) - 1), id), last)

RECURSIVE SortByCreatedAt(_, _)
SortByCreatedAt(s, seq) ==
  IF seq = <<>> THEN <<>>
  ELSE InsertSorted(s, SortByCreatedAt(s, SubSeq(seq, 1, Len(seq) - 1)), seq[Len(seq)])

getActiveJobs(s) ==
  LET IsProcessing(id) == s[id].status = "processing"
  IN  Filter(InsertionOrder(s, 1), IsProcessing)

\* getQueuedJobs without the sort, newest insertion first.
RECURSIVE Reverse(_)
Reverse(seq) == IF seq = <<>> THEN <<>> ELSE Append(Reverse(Tail(seq)), Head(seq))

getQueuedJobs_newestFirst(s) ==
  LET IsQueued(id) == s[id].status = "queued"
  IN  Reverse(Filter(InsertionOrder(s, 1), IsQueued))

\* getQueuedJobs whose filter also lets cancelled jobs through.
getQueuedJobs_withCancelled(s) ==
  LET IsQueued(id) == s[id].status \in {"queued", "cancelled"}
  IN  SortByCreatedAt(s, Filter(InsertionOrder(s, 1), IsQueued))

getQueuedJobs(s) ==
  LET IsQueued(id) == s[id].status = "queued"
  IN  SortByCreatedAt(s, Filter(InsertionOrder(s, 1), IsQueued))

getActiveJobCount(s) == Len(getActiveJobs(s))

getQueuedJobCount(s) == Len(getQueuedJobs(s))

\* cleanExpiredJobs whose age test is >= for >.
cleanExpiredJobs_inclusive(s, t) ==
  LET expired == {id \in DOMAIN s : /\ s[id].status \in Terminal
                                    /\ t - s[id].createdAt >= JOB_EXPIRY_MS}
  IN  [jobs |-> [id \in DOMAIN s \ expired |-> s[id]],
       cleaned |-> Cardinality(expired)]

\* cleanExpiredJobs without the status test: every job older than the window
\* goes.
cleanExpiredJobs_anyStatus(s, t) ==
  LET expired == {id \in DOMAIN s : t - s[id].createdAt > JOB_EXPIRY_MS}
  IN  [jobs |-> [id \in DOMAIN s \ expired |-> s[id]],
       cleaned |-> Cardinality(expired)]

\* The store after the sweep at time t, and the count the sweep returns.
cleanExpiredJobs(s, t) ==
  LET expired == {id \in DOMAIN s : /\ s[id].status \in Terminal
                                    /\ t - s[id].createdAt > JOB_EXPIRY_MS}
  IN  [jobs |-> [id \in DOMAIN s \ expired |-> s[id]],
       cleaned |-> Cardinality(expired)]

\* ---------------------------------------------------------------- pipeline

\* The locals of one processJob call.  calls and completions count the calls
\* of processJob(id) and of onJobComplete(id).  tBranch and vBranch follow the
\* two fan-out promises: "calling" while the transcriber (analyzer) is in
\* flight, "skipping" while the skip continuation is queued, then what
\* happened: "ok", "throws" or "skipped".  dBranch and aBranch are what the
\* downloader and the assembler answered: "none" until then, "ok" or "throws".
\* audioResult and frameResult are what extractAudio and sampleFrames
\* resolved with (hasAudio; "some" or "none" frames), NULL until then.
\* audioCleanups and frameCleanups count the calls of cleanupAudio(id) and
\* cleanupFrames(id).  downloads lists the arguments of the calls of
\* downloadVideo.
IdleRun ==
  [pc |-> "idle", calls |-> 0, completions |-> 0,
   title |-> "Untitled", duration |-> 0,
   dialogueEntries |-> <<>>, actionEntries |-> <<>>,
   transcriptionFailed |-> FALSE, visualFailed |-> FALSE,
   tBranch |-> "none", vBranch |-> "none",
   dBranch |-> "none", aBranch |-> "none",
   audioResult |-> NULL, frameResult |-> NULL,
   audioCleanups |-> 0, frameCleanups |-> 0,
   downloads |-> <<>>]

\* processJob has returned: its locals are gone; what its collaborators
\* answered stays on record.
Returned(r) == [IdleRun EXCEPT !.pc = "returned", !.calls = r.calls,
                               !.completions = r.completions,
                               !.tBranch = r.tBranch, !.vBranch = r.vBranch,
                               !.dBranch = r.dBranch, !.aBranch = r.aBranch,
                               !.audioResult = r.audioResult,
                               !.frameResult = r.frameResult,
                               !.audioCleanups = r.audioCleanups,
                               !.frameCleanups = r.frameCleanups,
                               !.downloads = r.downloads]

Settled == {"ok", "throws", "skipped"}

\* The entries a job has in the temp directory: its video file (the download
\* <id>_video.<ext>, or the upload under the name multer gave it), its audio
\* file <id>_audio.wav and its frame directory <id>_frames.
TempNames == {"video", "audio", "frames"}

\* stat(entry).isDirectory()
IsDirectory(f) == f.name = "frames"

\* The entry name of job id is written at time t.
writeTemp(W, id, name, t) ==
  [W EXCEPT !.files = {f \in @ : ~(f.job = id /\ f.name = name)}
                      \cup {[job |-> id, name |-> name, mtime |-> t]}]

\* The entry name of job id is removed, if it is there.
removeTemp(W, id, name) ==
  [W EXCEPT !.files = {f \in @ : ~(f.job = id /\ f.name = name)}]

cleanupAudio(W, id) ==
  [removeTemp(W, id, "audio") EXCEPT !.run[id].audioCleanups = @ + 1]

cleanupFrames(W, id) ==
  [removeTemp(W, id, "frames") EXCEPT !.run[id].frameCleanups = @ + 1]

\* A catch block after which processJob returns without its finally block.
Catch_noFinally(W, id, message, t) ==
  cleanupFrames(
    cleanupAudio(
      [W EXCEPT !.jobs = setJobError(@, id,
                                     [stage |-> "pipeline", message |-> message,
                                      userMessage |-> "Something went wrong while analyzing this video."],
                                     t),
                !.run[id].pc = "returned"],
      id),
    id)

\* A catch block that logs the error and records nothing on the job.
Catch_swallows(W, id, message, t) ==
  cleanupFrames(cleanupAudio([W EXCEPT !.run[id].pc = "finally"], id), id)

\* A catch block that records the error and cleans nothing up.
Catch_noCleanup(W, id, message, t) ==
  [W EXCEPT !.jobs = setJobError(@, id,
                                 [stage |-> "pipeline", message |-> message,
                                  userMessage |-> "Something went wrong while analyzing this video."],
                                 t),
            !.run[id].pc = "finally"]

\* The catch block of processJob: the top-level error, cleanupAudio,
\* cleanupFrames, then the finally block is next.
Catch(W, id, message, t) ==
  cleanupFrames(
    cleanupAudio(
      [W EXCEPT !.jobs = setJobError(@, id,
                                     [stage |-> "pipeline", message |-> message,
                                      userMessage |-> "Something went wrong while analyzing this video."],
                                     t),
                !.run[id].pc = "finally"],
      id),
    id)

\* Stage 2 begins: metadata, both fan-out stages in progress, extractAudio and
\* sampleFrames called.
BeginExtraction(W, id, title, duration) ==
  [W EXCEPT !.jobs = updateJobStage(
                       updateJobStage(
                         setJobMetadata(@, id, [title |-> title, duration |-> duration,
                                                sourceUrl |-> W.jobs[id].videoUrl]),
                         id, "transcription", "in_progress"),
                       id, "visual", "in_progress"),
            !.run[id].title = title,
            !.run[id].duration = duration,
            !.run[id].pc = "extract"]

\* processJob that downloads whenever the job has a URL or a file.
ProcessJobStart_downloadsUploads(W, id, t) ==
  LET W0 == [W EXCEPT !.run[id].calls = @ + 1] IN
  IF getJob(W0.jobs, id) = NULL
  THEN [W0 EXCEPT !.run[id] = Returned(@)]
  ELSE LET job == W0.jobs[id] IN
       IF job.filePath # NULL \/ job.videoUrl # NULL
       THEN [W0 EXCEPT !.jobs = updateJobStage(@, id, "download", "in_progress"),
                       !.run[id].downloads = Append(@, <<id, job.videoUrl>>),
                       !.run[id].pc = "download"]
       ELSE Catch(W0, id, "No video path available", t)

\* processJob from its call to its first await.
ProcessJobStart(W, id, t) ==
  LET W0 == [W EXCEPT !.run[id].calls = @ + 1] IN
  IF getJob(W0.jobs, id) = NULL
  THEN [W0 EXCEPT !.run[id] = Returned(@)]
  ELSE LET job == W0.jobs[id] IN
       IF job.filePath = NULL /\ job.videoUrl # NULL
       THEN [W0 EXCEPT !.jobs = updateJobStage(@, id, "download", "in_progress"),
                       !.run[id].downloads = Append(@, <<id, job.videoUrl>>),
                       !.run[id].pc = "download"]
       ELSE IF job.filePath # NULL
       THEN [W0 EXCEPT !.jobs = updateJobStage(@, id, "download", "skipped"),
                       !.run[id].pc = "probe"]
       ELSE Catch(W0, id, "No video path available", t)

\* ------------------------------------------------------------------ sweeps

\* cleanTempFiles that spares the entries of jobs still in the store.
cleanTempFiles_keepsReferenced(W, t) ==
  [W EXCEPT !.files = {f \in @ : \/ IsDirectory(f)
                                 \/ f.job \in DOMAIN W.jobs
                                 \/ ~(t - f.mtime > JOB_EXPIRY_MS)}]

\* cleanTempFiles at time t: every entry of the temp directory last modified
\* more than the expiry window ago is unlinked; unlinkSync fails on a
\* directory, the error is swallowed and the directory stays.
cleanTempFiles(W, t) ==
  [W EXCEPT !.files = {f \in @ : \/ IsDirectory(f)
                                 \/ ~(t - f.mtime > JOB_EXPIRY_MS)}]

\* ----------------------------------------------------------- queue manager

\* The callback index.ts registers before the server listens.
setProcessCallback(callback) == Some(callback)

\* canEnqueue that admits one job more (<= for <).
canEnqueue_offByOne(s) == getQueuedJobCount(s) + getActiveJobCount(s) <= maxQueueSize

canEnqueue(s) == getQueuedJobCount(s) + getActiveJobCount(s) < maxQueueSize

\* tryStartNext with the capacity test off by one (> for >=).
tryStartNext_offByOne(W, C, callback, t) ==
  IF getActiveJobCount(W.jobs) > C THEN W
  ELSE LET queued == getQueuedJobs(W.jobs) IN
       IF Len(queued) = 0 THEN W
       ELSE LET next == queued[1]
                W1 == [W EXCEPT !.jobs = updateJobStatus(@, next, "processing", t)]
            IN  IF callback # NULL THEN ProcessJobStart(W1, next, t) ELSE W1

tryStartNext(W, C, callback, t) ==
  IF getActiveJobCount(W.jobs) >= C THEN W
  ELSE LET queued == getQueuedJobs(W.jobs) IN
       IF Len(queued) = 0 THEN W
       ELSE LET next == queued[1]
                W1 == [W EXCEPT !.jobs = updateJobStatus(@, next, "processing", t)]
            IN  IF callback # NULL THEN ProcessJobStart(W1, next, t) ELSE W1

\* onJobComplete that only logs and starts nothing.
onJobComplete_noStart(W, id, C, callback, t) ==
  [W EXCEPT !.run[id].completions = @ + 1]

\* onJobComplete that first marks the finished job complete.
onJobComplete_marksComplete(W, id, C, callback, t) ==
  tryStartNext([W EXCEPT !.jobs = updateJobStatus(@, id, "complete", t),
                         !.run[id].completions = @ + 1], C, callback, t)

\* onJobComplete that puts the finished job back in the queue.
onJobComplete_requeues(W, id, C, callback, t) ==
  tryStartNext([W EXCEPT !.jobs = updateJobStatus(@, id, "queued", t),
                         !.run[id].completions = @ + 1], C, callback, t)

onJobComplete(W, id, C, callback, t) ==
  tryStartNext([W EXCEPT !.run[id].completions = @ + 1], C, callback, t)

\* cancelJob that also cancels a processing job.
cancelJob_allowsProcessing(s, id, t) ==
  IF getJob(s, id) = NULL THEN [jobs |-> s, ret |-> FALSE]
  ELSE IF s[id].status \in {"queued", "processing"}
       THEN [jobs |-> updateJobStatus(s, id, "cancelled", t), ret |-> TRUE]
       ELSE [jobs |-> s, ret |-> FALSE]

\* cancelJob that does not look at the status.
cancelJob_noStatusCheck(s, id, t) ==
  IF getJob(s, id) = NULL THEN [jobs |-> s, ret |-> FALSE]
  ELSE [jobs |-> updateJobStatus(s, id, "cancelled", t), ret |-> TRUE]

\* The new store and the value cancelJob returns.
cancelJob(s, id, t) ==
  IF getJob(s, id) = NULL THEN [jobs |-> s, ret |-> FALSE]
  ELSE IF s[id].status = "queued"
       THEN [jobs |-> updateJobStatus(s, id, "cancelled", t), ret |-> TRUE]
       ELSE [jobs |-> s, ret |-> FALSE]

\* queued.findIndex(...): the 0-based index of id in queued, or -1.
RECURSIVE findIndex(_, _, _)
findIndex(queued, id, i) ==
  IF i > Len(queued) THEN -1
  ELSE IF queued[i] = id THEN i - 1
  ELSE findIndex(queued, id, i + 1)

\* getQueuePosition that returns the 0-based index.
getQueuePosition_zeroBased(s, id) ==
  findIndex(getQueuedJobs(s), id, 1)

getQueuePosition(s, id) ==
  LET index == findIndex(getQueuedJobs(s), id, 1)
  IN  IF index = -1 THEN -1 ELSE index + 1

\* ----------------------------------------------------------------- scripts

AssemblyInput(job, r) ==
  [title |-> r.title,
   sourceUrl |-> IF job.videoUrl # NULL THEN job.videoUrl[1] ELSE "File upload",
   platform |-> job.platform,
   dialogueEntries |-> r.dialogueEntries,
   actionEntries |-> r.actionEntries,
   transcriptionFailed |-> r.transcriptionFailed,
   visualFailed |-> r.visualFailed]

\* The text the assembler returns is opaque; the script records what it was
\* asked to assemble.
assembleScript(input) ==
  [by |-> "assembleScript", input |-> input, lines |-> <<"screenplay">>]

\* The entries of the timeline have no timestamps here: the stable sort keeps
\* the dialogue lines before the action lines.
formatBasicScript(input) ==
  [by |-> "formatBasicScript", input |-> input,
   lines |-> <<"TITLE", "SOURCE", "PLATFORM", "DURATION", "PROCESSED",
               "BACKGROUND MUSIC", "", "NOTE", "", "---", "">>
             \o (IF input.transcriptionFailed
                 THEN <<"[Audio transcription was unavailable for this video]", "">>
                 ELSE <<>>)
             \o (IF input.visualFailed
                 THEN <<"[Visual analysis was unavailable for this video]", "">>
                 ELSE <<>>)
             \o input.dialogueEntries \o input.actionEntries]

\* ------------------------------------------------------------- environment

\* What the collaborators can answer: every outcome of every stage call.
FullEnv ==
  [download |-> {"ok", "throws"},
   probe |-> {60},
   hasAudio |-> BOOLEAN,
   frames |-> {"some", "none", "throws"},
   transcribe |-> {"ok", "throws"},
   analyze |-> {"ok", "throws"},
   assemble |-> {"ok", "throws"}]

\* Collaborators of which only the downloader fails: every video has audio
\* and frames, and the transcriber, the analyzer and the assembler succeed.
SchedEnv ==
  [download |-> {"ok", "throws"},
   probe |-> {60},
   hasAudio |-> {TRUE},
   frames |-> {"some"},
   transcribe |-> {"ok"},
   analyze |-> {"ok"},
   assemble |-> {"ok"}]

\* ----------------------------------------------------------------- actions

World == [jobs |-> jobs, run |-> run, files |-> files]

\* The runs that have left their try/catch block and not yet run finally.
Turn == {id \in AllIds : run[id].pc = "finally"}

Commit(W) == jobs' = W.jobs /\ run' = W.run /\ files' = W.files

Init ==
  /\ jobs = <<>>
  /\ nextId = 1
  /\ now = 0
  /\ maxConcurrentJobs \in ConcurrencyLimits
  /\ maxQueueSize = DefaultMaxQueueSize
  /\ onProcessJob = setProcessCallback("processJob")
  /\ run = [id \in AllIds |-> IdleRun]
  /\ files = {}

\* The server started with a small MAX_QUEUE_SIZE.
InitAdmit ==
  /\ jobs = <<>>
  /\ nextId = 1
  /\ now = 0
  /\ maxConcurrentJobs \in ConcurrencyLimits
  /\ maxQueueSize \in AdmissionCeilings
  /\ onProcessJob = setProcessCallback("processJob")
  /\ run = [id \in AllIds |-> IdleRun]
  /\ files = {}

Tick(maxClock) ==
  /\ Turn = {}
  /\ now < maxClock
  /\ now' = now + 1
  /\ UNCHANGED <<jobs, nextId, maxConcurrentJobs, maxQueueSize, onProcessJob, run, files>>

\* POST /api/process that creates the job and does not call tryStartNext.
SubmitUrl_noStart(limit) ==
  /\ Turn = {}
  /\ nextId <= limit
  /\ canEnqueue(jobs)
  /\ Commit([World EXCEPT !.jobs = createJob(@, nextId, "youtube", Some("url"), NULL, now)])
  /\ nextId' = nextId + 1
  /\ UNCHANGED <<now, maxConcurrentJobs, maxQueueSize, onProcessJob>>

\* POST /api/process
SubmitUrl(limit) ==
  /\ Turn = {}
  /\ nextId <= limit
  /\ canEnqueue(jobs)
  /\ LET W1 == [World EXCEPT !.jobs = createJob(@, nextId, "youtube", Some("url"), NULL, now)]
     IN  Commit(tryStartNext(W1, maxConcurrentJobs, onProcessJob, now))
  /\ nextId' = nextId + 1
  /\ UNCHANGED <<now, maxConcurrentJobs, maxQueueSize, onProcessJob>>

\* POST /api/upload that does not pass the path of the uploaded file.
SubmitUpload_noPath(limit) ==
  /\ Turn = {}
  /\ nextId <= limit
  /\ canEnqueue(jobs)
  /\ LET W0 == writeTemp(World, nextId, "video", now)
         W1 == [W0 EXCEPT !.jobs = createJob(@, nextId, "upload", NULL, NULL, now)]
     IN  Commit(tryStartNext(W1, maxConcurrentJobs, onProcessJob, now))
  /\ nextId' = nextId + 1
  /\ UNCHANGED <<now, maxConcurrentJobs, maxQueueSize, onProcessJob>>

\* POST /api/upload: multer has written the upload into the temp directory;
\* a request refused for a full queue unlinks it again and changes nothing.
SubmitUpload(limit) ==
  /\ Turn = {}
  /\ nextId <= limit
  /\ canEnqueue(jobs)
  /\ LET W0 == writeTemp(World, nextId, "video", now)
         W1 == [W0 EXCEPT !.jobs = createJob(@, nextId, "upload", NULL, Some("file"), now)]
     IN  Commit(tryStartNext(W1, maxConcurrentJobs, onProcessJob, now))
  /\ nextId' = nextId + 1
  /\ UNCHANGED <<now, maxConcurrentJobs, maxQueueSize, onProcessJob>>

CancelJob(id) ==
  /\ Turn = {}
  /\ jobs' = cancelJob(jobs, id, now).jobs
  /\ UNCHANGED <<nextId, now, maxConcurrentJobs, maxQueueSize, onProcessJob, run, files>>

\* processJob called with an id that is not in the store.
ProcessJobUnknown ==
  /\ Turn = {}
  /\ run[UnknownId].pc = "idle"
  /\ Commit(ProcessJobStart(World, UnknownId, now))
  /\ UNCHANGED <<nextId, now, maxConcurrentJobs, maxQueueSize, onProcessJob>>

\* DownloadReturn that marks the stage and goes on after a failed download.
DownloadReturn_continues(id, E) ==
  /\ run[id].pc = "download"
  /\ Turn = {}
  /\ \E outcome \in E.download :
       IF outcome = "ok"
       THEN Commit(BeginExtraction(
                     [writeTemp(World, id, "video", now)
                        EXCEPT !.jobs = updateJobStage(@, id, "download", "complete"),
                               !.run[id].dBranch = outcome],
                     id, "title", 60))
       ELSE Commit(BeginExtraction(
                     [World EXCEPT !.jobs = updateJobStage(@, id, "download", "error"),
                                   !.run[id].dBranch = outcome],
                     id, "Untitled", 0))
  /\ UNCHANGED <<nextId, now, maxConcurrentJobs, maxQueueSize, onProcessJob>>

\* await downloadVideo(...) returns or throws.
DownloadReturn(id, E) ==
  /\ run[id].pc = "download"
  /\ Turn = {}
  /\ \E outcome \in E.download :
       IF outcome = "ok"
       THEN Commit(BeginExtraction(
                     [writeTemp(World, id, "video", now)
                        EXCEPT !.jobs = updateJobStage(@, id, "download", "complete"),
                               !.run[id].dBranch = outcome],
                     id, "title", 60))
       ELSE Commit(Catch([World EXCEPT !.jobs = updateJobStage(@, id, "download", "error"),
                                       !.run[id].dBranch = outcome],
                         id, "download failed", now))
  /\ UNCHANGED <<nextId, now, maxConcurrentJobs, maxQueueSize, onProcessJob>>

ProbeReturn(id, E) ==
  /\ run[id].pc = "probe"
  /\ Turn = {}
  /\ \E duration \in E.probe : Commit(BeginExtraction(World, id, "Untitled", duration))
  /\ UNCHANGED <<nextId, now, maxConcurrentJobs, maxQueueSize, onProcessJob>>

\* What extractAudio(id) leaves in the temp directory: the audio file when
\* the video has an audio stream.
AudioWritten(W, id, hasAudio, t) ==
  IF hasAudio THEN writeTemp(W, id, "audio", t) ELSE W

\* ExtractReturn that calls the transcriber and the analyzer whatever the
\* extraction found.
ExtractReturn_alwaysCalls(id, E) ==
  /\ run[id].pc = "extract"
  /\ Turn = {}
  /\ \E hasAudio \in E.hasAudio, frames \in E.frames :
       IF frames = "throws"
       THEN Commit(AudioWritten(Catch(World, id, "frame sampling failed", now),
                                id, hasAudio, now))
       ELSE Commit([removeTemp(
                      writeTemp(AudioWritten(World, id, hasAudio, now),
                                id, "frames", now),
                      id, "video")
                    EXCEPT
                      !.run[id].audioResult = Some(hasAudio),
                      !.run[id].frameResult = Some(frames),
                      !.run[id].tBranch = "calling",
                      !.run[id].vBranch = "calling",
                      !.run[id].pc = "fanout"])
  /\ UNCHANGED <<nextId, now, maxConcurrentJobs, maxQueueSize, onProcessJob>>

\* Promise.all([extractAudio, sampleFrames]) settles.  sampleFrames throws
\* when it cannot make its directory: Promise.all rejects at once, the catch
\* block runs, and the audio extraction still in flight writes its file
\* afterwards.  Otherwise both have written their entries, the video file is
\* unlinked and the two fan-out promises are made.
ExtractReturn(id, E) ==
  /\ run[id].pc = "extract"
  /\ Turn = {}
  /\ \E hasAudio \in E.hasAudio, frames \in E.frames :
       IF frames = "throws"
       THEN Commit(AudioWritten(Catch(World, id, "frame sampling failed", now),
                                id, hasAudio, now))
       ELSE Commit([removeTemp(
                      writeTemp(AudioWritten(World, id, hasAudio, now),
                                id, "frames", now),
                      id, "video")
                    EXCEPT
                      !.run[id].audioResult = Some(hasAudio),
                      !.run[id].frameResult = Some(frames),
                      !.run[id].tBranch = IF hasAudio THEN "calling" ELSE "skipping",
                      !.run[id].vBranch = IF frames = "some" THEN "calling" ELSE "skipping",
                      !.run[id].pc = "fanout"])
  /\ UNCHANGED <<nextId, now, maxConcurrentJobs, maxQueueSize, onProcessJob>>

\* TranscriptionSettle without the .catch handler: the transcriber's error
\* rejects Promise.all at once.
TranscriptionSettle_failFast(id, E) ==
  /\ run[id].pc = "fanout"
  /\ Turn = {}
  /\ run[id].tBranch \in {"calling", "skipping"}
  /\ \E outcome \in E.transcribe :
       Commit(
         IF run[id].tBranch = "skipping"
         THEN [World EXCEPT !.jobs = updateJobStage(@, id, "transcription", "skipped"),
                            !.run[id].tBranch = "skipped"]
         ELSE IF outcome = "ok"
         THEN cleanupAudio(
                [World EXCEPT !.jobs = updateJobStage(@, id, "transcription", "complete"),
                              !.run[id].dialogueEntries = DialogueResult,
                              !.run[id].tBranch = "ok"],
                id)
         ELSE Catch([World EXCEPT !.jobs = updateJobStage(@, id, "transcription", "error"),
                                  !.run[id].transcriptionFailed = TRUE,
                                  !.run[id].tBranch = "throws"],
                    id, "transcription failed", now))
  /\ UNCHANGED <<nextId, now, maxConcurrentJobs, maxQueueSize, onProcessJob>>

\* The continuation of transcriptionPromise runs: then, catch or skip.
TranscriptionSettle(id, E) ==
  /\ run[id].pc = "fanout"
  /\ Turn = {}
  /\ run[id].tBranch \in {"calling", "skipping"}
  /\ \E outcome \in E.transcribe :
       Commit(
         IF run[id].tBranch = "skipping"
         THEN [World EXCEPT !.jobs = updateJobStage(@, id, "transcription", "skipped"),
                            !.run[id].tBranch = "skipped"]
         ELSE IF outcome = "ok"
         THEN cleanupAudio(
                [World EXCEPT !.jobs = updateJobStage(@, id, "transcription", "complete"),
                              !.run[id].dialogueEntries = DialogueResult,
                              !.run[id].tBranch = "ok"],
                id)
         ELSE cleanupAudio(
                [World EXCEPT !.jobs = setJobStageError(
                                         updateJobStage(@, id, "transcription", "error"),
                                         id, "transcription", "transcription failed"),
                              !.run[id].transcriptionFailed = TRUE,
                              !.run[id].tBranch = "throws"],
                id))
  /\ UNCHANGED <<nextId, now, maxConcurrentJobs, maxQueueSize, onProcessJob>>

\* VisualSettle without the .catch handler: the analyzer's error rejects
\* Promise.all at once, whatever the transcriber is doing.
VisualSettle_failFast(id, E) ==
  /\ run[id].pc = "fanout"
  /\ Turn = {}
  /\ run[id].vBranch \in {"calling", "skipping"}
  /\ \E outcome \in E.analyze :
       Commit(
         IF run[id].vBranch = "skipping"
         THEN [World EXCEPT !.jobs = updateJobStage(@, id, "visual", "skipped"),
                            !.run[id].vBranch = "skipped"]
         ELSE IF outcome = "ok"
         THEN cleanupFrames(
                [World EXCEPT !.jobs = updateJobStage(@, id, "visual", "complete"),
                              !.run[id].actionEntries = ActionResult,
                              !.run[id].vBranch = "ok"],
                id)
         ELSE Catch([World EXCEPT !.jobs = updateJobStage(@, id, "visual", "error"),
                                  !.run[id].visualFailed = TRUE,
                                  !.run[id].vBranch = "throws"],
                    id, "visual analysis failed", now))
  /\ UNCHANGED <<nextId, now, maxConcurrentJobs, maxQueueSize, onProcessJob>>

\* VisualSettle that writes the stage map back from the copy it took when the
\* fan-out began.
VisualSettle_staleStageMap(id, E) ==
  /\ run[id].pc = "fanout"
  /\ Turn = {}
  /\ run[id].vBranch \in {"calling", "skipping"}
  /\ \E outcome \in E.analyze :
       LET stale == [jobs[id].stages EXCEPT !.transcription = "in_progress"] IN
       Commit(
         IF run[id].vBranch = "skipping"
         THEN [World EXCEPT !.jobs[id].stages = [stale EXCEPT !.visual = "skipped"],
                            !.run[id].vBranch = "skipped"]
         ELSE IF outcome = "ok"
         THEN cleanupFrames(
                [World EXCEPT !.jobs[id].stages = [stale EXCEPT !.visual = "complete"],
                              !.run[id].actionEntries = ActionResult,
                              !.run[id].vBranch = "ok"],
                id)
         ELSE cleanupFrames(
                [World EXCEPT !.jobs = setJobStageError(
                                         [@ EXCEPT ![id].stages = [stale EXCEPT !.visual = "error"]],
                                         id, "visual", "visual analysis failed"),
                              !.run[id].visualFailed = TRUE,
                              !.run[id].vBranch = "throws"],
                id))
  /\ UNCHANGED <<nextId, now, maxConcurrentJobs, maxQueueSize, onProcessJob>>

\* The continuation of visualPromise runs: then, catch or skip.
VisualSettle(id, E) ==
  /\ run[id].pc = "fanout"
  /\ Turn = {}
  /\ run[id].vBranch \in {"calling", "skipping"}
  /\ \E outcome \in E.analyze :
       Commit(
         IF run[id].vBranch = "skipping"
         THEN [World EXCEPT !.jobs = updateJobStage(@, id, "visual", "skipped"),
                            !.run[id].vBranch = "skipped"]
         ELSE IF outcome = "ok"
         THEN cleanupFrames(
                [World EXCEPT !.jobs = updateJobStage(@, id, "visual", "complete"),
                              !.run[id].actionEntries = ActionResult,
                              !.run[id].vBranch = "ok"],
                id)
         ELSE cleanupFrames(
                [World EXCEPT !.jobs = setJobStageError(
                                         updateJobStage(@, id, "visual", "error"),
                                         id, "visual", "visual analysis failed"),
                              !.run[id].visualFailed = TRUE,
                              !.run[id].vBranch = "throws"],
                id))
  /\ UNCHANGED <<nextId, now, maxConcurrentJobs, maxQueueSize, onProcessJob>>

ToAssembly(id) ==
  [World EXCEPT
     !.jobs = updateJobStage(
                setJobVisualAnalysis(
                  setJobTranscription(@, id,
                    [dialogueEntries |-> run[id].dialogueEntries]),
                  id, [actionEntries |-> run[id].actionEntries]),
                id, "assembly", "in_progress"),
     !.run[id].pc = "assembly"]

\* Join without the joint-failure test.
Join_noJointCheck(id) ==
  /\ run[id].pc = "fanout"
  /\ Turn = {}
  /\ run[id].tBranch \in Settled
  /\ run[id].vBranch \in Settled
  /\ Commit(ToAssembly(id))
  /\ UNCHANGED <<nextId, now, maxConcurrentJobs, maxQueueSize, onProcessJob>>

\* Join that aborts when either stage failed (|| for &&).
Join_anyFailureFatal(id) ==
  /\ run[id].pc = "fanout"
  /\ Turn = {}
  /\ run[id].tBranch \in Settled
  /\ run[id].vBranch \in Settled
  /\ Commit(
       IF run[id].transcriptionFailed \/ run[id].visualFailed
       THEN Catch(World, id, "Both transcription and visual analysis failed", now)
       ELSE ToAssembly(id))
  /\ UNCHANGED <<nextId, now, maxConcurrentJobs, maxQueueSize, onProcessJob>>

\* Join that resumes as soon as one of the two promises has settled
\* (Promise.race for Promise.all).
Join_firstSettled(id) ==
  /\ run[id].pc = "fanout"
  /\ Turn = {}
  /\ run[id].tBranch \in Settled \/ run[id].vBranch \in Settled
  /\ Commit(
       IF run[id].transcriptionFailed /\ run[id].visualFailed
       THEN Catch(World, id, "Both transcription and visual analysis failed", now)
       ELSE ToAssembly(id))
  /\ UNCHANGED <<nextId, now, maxConcurrentJobs, maxQueueSize, onProcessJob>>

\* Join that aborts when neither branch produced data: each one failed or
\* was skipped.
Join_skippedCountsAsFailed(id) ==
  /\ run[id].pc = "fanout"
  /\ Turn = {}
  /\ run[id].tBranch \in Settled
  /\ run[id].vBranch \in Settled
  /\ Commit(
       IF run[id].tBranch # "ok" /\ run[id].vBranch # "ok"
       THEN Catch(World, id, "Both transcription and visual analysis failed", now)
       ELSE ToAssembly(id))
  /\ UNCHANGED <<nextId, now, maxConcurrentJobs, maxQueueSize, onProcessJob>>

\* await Promise.all([transcriptionPromise, visualPromise]) resumes.
Join(id) ==
  /\ run[id].pc = "fanout"
  /\ Turn = {}
  /\ run[id].tBranch \in Settled
  /\ run[id].vBranch \in Settled
  /\ Commit(
       IF run[id].transcriptionFailed /\ run[id].visualFailed
       THEN Catch(World, id, "Both transcription and visual analysis failed", now)
       ELSE ToAssembly(id))
  /\ UNCHANGED <<nextId, now, maxConcurrentJobs, maxQueueSize, onProcessJob>>

\* AssembleReturn without the inner try/catch: the assembler's error reaches
\* the catch block of processJob.
AssembleReturn_propagates(id, E) ==
  /\ run[id].pc = "assembly"
  /\ Turn = {}
  /\ \E outcome \in E.assemble :
       LET input == AssemblyInput(jobs[id], run[id])
       IN  IF outcome = "ok"
           THEN Commit([World EXCEPT
                          !.jobs = updateJobStatus(
                                     updateJobStage(setJobScript(@, id, assembleScript(input)),
                                                    id, "assembly", "complete"),
                                     id, "complete", now),
                          !.run[id].aBranch = outcome,
                          !.run[id].pc = "finally"])
           ELSE Commit(Catch([World EXCEPT !.run[id].aBranch = outcome],
                             id, "assembly failed", now))
  /\ UNCHANGED <<nextId, now, maxConcurrentJobs, maxQueueSize, onProcessJob>>

\* AssembleReturn that marks the job complete and stores no script.
AssembleReturn_noScript(id, E) ==
  /\ run[id].pc = "assembly"
  /\ Turn = {}
  /\ \E outcome \in E.assemble :
       Commit([World EXCEPT
                 !.jobs = updateJobStatus(
                            updateJobStage(@, id, "assembly", "complete"),
                            id, "complete", now),
                 !.run[id].aBranch = outcome,
                 !.run[id].pc = "finally"])
  /\ UNCHANGED <<nextId, now, maxConcurrentJobs, maxQueueSize, onProcessJob>>

\* AssembleReturn that stores the script and leaves the status as it is.
AssembleReturn_noStatus(id, E) ==
  /\ run[id].pc = "assembly"
  /\ Turn = {}
  /\ \E outcome \in E.assemble :
       LET input == AssemblyInput(jobs[id], run[id])
           script == IF outcome = "ok" THEN assembleScript(input)
                     ELSE formatBasicScript(input)
       IN  Commit([World EXCEPT
                     !.jobs = updateJobStage(setJobScript(@, id, script),
                                             id, "assembly", "complete"),
                     !.run[id].aBranch = outcome,
                     !.run[id].pc = "finally"])
  /\ UNCHANGED <<nextId, now, maxConcurrentJobs, maxQueueSize, onProcessJob>>

\* await assembleScript(...) returns or throws.
AssembleReturn(id, E) ==
  /\ run[id].pc = "assembly"
  /\ Turn = {}
  /\ \E outcome \in E.assemble :
       LET input == AssemblyInput(jobs[id], run[id])
           script == IF outcome = "ok" THEN assembleScript(input)
                     ELSE formatBasicScript(input)
       IN  Commit([World EXCEPT
                     !.jobs = updateJobStatus(
                                updateJobStage(setJobScript(@, id, script),
                                               id, "assembly", "complete"),
                                id, "complete", now),
                     !.run[id].aBranch = outcome,
                     !.run[id].pc = "finally"])
  /\ UNCHANGED <<nextId, now, maxConcurrentJobs, maxQueueSize, onProcessJob>>

\* The finally block of processJob.
Finally(id) ==
  /\ run[id].pc = "finally"
  /\ LET W1 == onJobComplete(World, id, maxConcurrentJobs, onProcessJob, now)
     IN  Commit([W1 EXCEPT !.run[id] = Returned(@)])
  /\ UNCHANGED <<nextId, now, maxConcurrentJobs, maxQueueSize, onProcessJob>>

\* The steps of a call once it has a video file (stage 2 onwards).
StagesStep(id, E) ==
  \/ ExtractReturn(id, E)
  \/ TranscriptionSettle(id, E)
  \/ VisualSettle(id, E)
  \/ Join(id)
  \/ AssembleReturn(id, E)
  \/ Finally(id)

PipelineStep(id, E) ==
  \/ DownloadReturn(id, E)
  \/ ProbeReturn(id, E)
  \/ StagesStep(id, E)

\* The steps of a call for an uploaded job: it downloads nothing.
UploadPipelineStep(id, E) ==
  \/ ProbeReturn(id, E)
  \/ StagesStep(id, E)

\* The steps of a call for a job that has a URL: it never probes an upload.
UrlPipelineStep(id, E) ==
  \/ DownloadReturn(id, E)
  \/ StagesStep(id, E)

Next ==
  \/ Tick(MaxClock)
  \/ SubmitUrl(MaxJobs)
  \/ SubmitUpload(MaxJobs)
  \/ \E id \in AllIds : CancelJob(id)
  \/ ProcessJobUnknown
  \/ \E id \in JobIds : PipelineStep(id, FullEnv)

Spec == Init /\ [][Next]_vars

\* More jobs, all submitted through POST /api/process, against the
\* collaborators of SchedEnv.
NextSched ==
  \/ Tick(MaxSchedClock)
  \/ SubmitUrl(MaxSchedJobs)
  \/ \E id \in AllIds : CancelJob(id)
  \/ \E id \in JobIds : UrlPipelineStep(id, SchedEnv)

SchedSpec == Init /\ [][NextSched]_vars

\* The instants the clock shows where the sweeper runs: around the creation
\* of the jobs and around the end of the expiry window.
SweepTimes ==
  (0..MaxSweepClock) \cup {JOB_EXPIRY_MS + d : d \in (-1)..MaxSweepClock}

\* Time passes, by any amount.
SweepTick ==
  /\ Turn = {}
  /\ \E t \in SweepTimes : t > now /\ now' = t
  /\ UNCHANGED <<jobs, nextId, maxConcurrentJobs, maxQueueSize, onProcessJob, run, files>>

\* The interval callback of startCleanupInterval: cleanExpiredJobs(), then
\* cleanTempFiles().
Sweep ==
  /\ Turn = {}
  /\ Commit(cleanTempFiles([World EXCEPT !.jobs = cleanExpiredJobs(@, now).jobs], now))
  /\ UNCHANGED <<nextId, now, maxConcurrentJobs, maxQueueSize, onProcessJob>>

\* The server with its sweeper, over the whole expiry window.
NextSweep ==
  \/ SweepTick
  \/ SubmitUrl(MaxSweepJobs)
  \/ \E id \in AllIds : CancelJob(id)
  \/ \E id \in JobIds : UrlPipelineStep(id, SchedEnv)
  \/ Sweep

SweepSpec == Init /\ [][NextSweep]_vars

\* Collaborators that leave entries behind in the temp directory: frame
\* sampling throws or returns no frame.
TempEnv ==
  [download |-> {"ok", "throws"},
   probe |-> {60},
   hasAudio |-> {TRUE},
   frames |-> {"none", "throws"},
   transcribe |-> {"ok"},
   analyze |-> {"ok"},
   assemble |-> {"ok"}]

\* The instants the clock shows where temp files are swept: while they are
\* written, and when the expiry window of the last of them ends and one
\* millisecond later.
TempTimes ==
  (0..MaxTempClock) \cup {JOB_EXPIRY_MS + MaxTempClock, JOB_EXPIRY_MS + MaxTempClock + 1}

TempTick ==
  /\ Turn = {}
  /\ \E t \in TempTimes : t > now /\ now' = t
  /\ UNCHANGED <<jobs, nextId, maxConcurrentJobs, maxQueueSize, onProcessJob, run, files>>

\* The server with its sweeper and the files its uploaded jobs leave in the
\* temp directory.
NextTemp ==
  \/ TempTick
  \/ SubmitUpload(MaxTempJobs)
  \/ \E id \in AllIds : CancelJob(id)
  \/ \E id \in JobIds : UploadPipelineStep(id, TempEnv)
  \/ Sweep

TempSpec == Init /\ [][NextTemp]_vars

\* The queue manager as its module leaves it: no callback registered yet.
InitBoot ==
  /\ jobs = <<>>
  /\ nextId = 1
  /\ now = 0
  /\ maxConcurrentJobs \in ConcurrencyLimits
  /\ maxQueueSize = DefaultMaxQueueSize
  /\ onProcessJob = NULL
  /\ run = [id \in AllIds |-> IdleRun]
  /\ files = {}

\* setProcessCallback(callback) is called.
Register ==
  /\ Turn = {}
  /\ onProcessJob = NULL
  /\ onProcessJob' = setProcessCallback("processJob")
  /\ UNCHANGED <<jobs, nextId, now, maxConcurrentJobs, maxQueueSize, run, files>>

\* The queue manager used from its creation on: jobs may be submitted
\* before the callback is registered.
NextBoot ==
  \/ Register
  \/ SubmitUrl(MaxBootJobs)
  \/ \E id \in AllIds : CancelJob(id)
  \/ \E id \in JobIds : UrlPipelineStep(id, SchedEnv)

BootSpec == InitBoot /\ [][NextBoot]_vars

\* Both submit routes against a small admission ceiling.
NextAdmit ==
  \/ SubmitUrl(MaxAdmitJobs)
  \/ SubmitUpload(MaxAdmitJobs)
  \/ \E id \in AllIds : CancelJob(id)
  \/ \E id \in JobIds : PipelineStep(id, SchedEnv)

AdmitSpec == InitAdmit /\ [][NextAdmit]_vars

\* The arguments the callers of the store pass: the two sources of a job,
\* one value for each artifact, one error record.
StoreSources == {<<Some("url"), NULL>>, <<NULL, Some("file")>>}

StoreMetadata == [title |-> "title", duration |-> 60, sourceUrl |-> Some("url")]

StoreTranscription == [dialogueEntries |-> DialogueResult]

StoreVisualAnalysis == [actionEntries |-> ActionResult]

StoreScript == assembleScript("input")

StoreError == [stage |-> "pipeline", message |-> "message", userMessage |-> "userMessage"]

\* The exported functions of jobStore.ts called directly, with any id.  The
\* status and the error of a job are set at any moment; its artifacts are
\* stored in the order of lines 70-197 of processJob, their only caller:
\* metadata, transcription, visual analysis, assembly stage, script.
StoreCreateJob ==
  /\ nextId <= MaxStoreJobs
  /\ \E src \in StoreSources :
       jobs' = createJob(jobs, nextId, "upload", src[1], src[2], now)
  /\ nextId' = nextId + 1
  /\ UNCHANGED <<now, maxConcurrentJobs, maxQueueSize, onProcessJob, run, files>>

StoreUpdateJobStatus(id) ==
  /\ \E status \in JobStatus : jobs' = updateJobStatus(jobs, id, status, now)
  /\ UNCHANGED <<nextId, now, maxConcurrentJobs, maxQueueSize, onProcessJob, run, files>>

StoreUpdateJobStage(id) ==
  /\ id \in DOMAIN jobs => jobs[id].visualAnalysis # NULL
  /\ \E stageStatus \in {"in_progress", "complete"} :
       jobs' = updateJobStage(jobs, id, "assembly", stageStatus)
  /\ UNCHANGED <<nextId, now, maxConcurrentJobs, maxQueueSize, onProcessJob, run, files>>

StoreSetJobMetadata(id) ==
  /\ jobs' = setJobMetadata(jobs, id, StoreMetadata)
  /\ UNCHANGED <<nextId, now, maxConcurrentJobs, maxQueueSize, onProcessJob, run, files>>

StoreSetJobTranscription(id) ==
  /\ id \in DOMAIN jobs => jobs[id].metadata # NULL
  /\ jobs' = setJobTranscription(jobs, id, StoreTranscription)
  /\ UNCHANGED <<nextId, now, maxConcurrentJobs, maxQueueSize, onProcessJob, run, files>>

StoreSetJobVisualAnalysis(id) ==
  /\ id \in DOMAIN jobs => jobs[id].transcription # NULL
  /\ jobs' = setJobVisualAnalysis(jobs, id, StoreVisualAnalysis)
  /\ UNCHANGED <<nextId, now, maxConcurrentJobs, maxQueueSize, onProcessJob, run, files>>

StoreSetJobScript(id) ==
  /\ id \in DOMAIN jobs => jobs[id].stages.assembly = "complete"
  /\ jobs' = setJobScript(jobs, id, StoreScript)
  /\ UNCHANGED <<nextId, now, maxConcurrentJobs, maxQueueSize, onProcessJob, run, files>>

StoreSetJobError(id) ==
  /\ jobs' = setJobError(jobs, id, StoreError, now)
  /\ UNCHANGED <<nextId, now, maxConcurrentJobs, maxQueueSize, onProcessJob, run, files>>

NextStore ==
  \/ StoreCreateJob
  \/ \E id \in AllIds :
       \/ StoreUpdateJobStatus(id)
       \/ StoreUpdateJobStage(id)
       \/ StoreSetJobMetadata(id)
       \/ StoreSetJobTranscription(id)
       \/ StoreSetJobVisualAnalysis(id)
       \/ StoreSetJobScript(id)
       \/ StoreSetJobError(id)

StoreSpec == Init /\ [][NextStore]_vars

\* Every stage call returns or throws, and Node runs a continuation that is
\* ready: each step of each pipeline run is eventually taken.
Fairness(E) == \A id \in JobIds : WF_vars(PipelineStep(id, E))

LiveSpec == Init /\ [][Next]_vars /\ Fairness(FullEnv)

LiveSchedSpec == Init /\ [][NextSched]_vars /\ Fairness(SchedEnv)

\* ------------------------------------------------------------------ claims

WithStatus(s, status) == {id \in DOMAIN s : s[id].status = status}

\* a was created before b: by creation time, then by insertion.
CreatedBefore(s, a, b) ==
  \/ s[a].createdAt < s[b].createdAt
  \/ s[a].createdAt = s[b].createdAt /\ a < b

\* C1: in every reachable state at most config.maxConcurrentJobs jobs have
\* status processing.
C1_ProcessingBounded ==
  Cardinality(WithStatus(jobs, "processing")) <= maxConcurrentJobs

\* Every slot is taken and a job waits in the queue.
C1_Witness ==
  /\ Cardinality(WithStatus(jobs, "processing")) = maxConcurrentJobs
  /\ maxConcurrentJobs = 2
  /\ WithStatus(jobs, "queued") # {}

\* C3: every created job that is queued eventually leaves the queue: it
\* enters processing unless it is cancelled first.
C3_QueuedEventuallyStarts ==
  \A id \in JobIds :
    (id \in DOMAIN jobs /\ jobs[id].status = "queued")
      ~> (id \in DOMAIN jobs /\ jobs[id].status \in {"processing", "cancelled"})

\* With one slot, job 2 was created while job 1 held it, and runs now.
C3_Witness ==
  /\ maxConcurrentJobs = 1
  /\ {1, 2} \subseteq DOMAIN jobs
  /\ jobs[1].status \in {"complete", "error"}
  /\ jobs[2].status = "processing"
  /\ jobs[2].createdAt < jobs[1].completedAt[1]

\* C4: one onJobComplete call moves at most one job from queued to
\* processing, only when fewer than C jobs are processing and a job is queued
\* at the call, and changes no other status.
C4_OneStartPerCompletion ==
  [][\A id \in JobIds :
       Finally(id) =>
         LET started == {j \in DOMAIN jobs :
                           jobs[j].status = "queued" /\ jobs'[j].status = "processing"}
             changed == {j \in DOMAIN jobs : jobs'[j].status # jobs[j].status}
         IN  /\ DOMAIN jobs' = DOMAIN jobs
             /\ Cardinality(started) <= 1
             /\ changed = started
             /\ started # {} <=>
                  /\ Cardinality(WithStatus(jobs, "processing")) < maxConcurrentJobs
                  /\ WithStatus(jobs, "queued") # {}]_vars

\* A run that ended in error is about to call onJobComplete while the other
\* slot is taken and a job is queued.
C4_Witness ==
  \E id \in JobIds :
    /\ run[id].pc = "finally"
    /\ jobs[id].status = "error"
    /\ maxConcurrentJobs = 2
    /\ Cardinality(WithStatus(jobs, "processing")) = 1
    /\ WithStatus(jobs, "queued") # {}

\* C5: the job tryStartNext starts is the oldest queued job (creation time,
\* then insertion), so no job is in processing or beyond while a job created
\* before it is still queued.
C5_Fifo ==
  /\ [][\A b \in DOMAIN jobs' :
          (/\ jobs'[b].status = "processing"
           /\ (b \in DOMAIN jobs => jobs[b].status = "queued"))
          => ~ \E a \in DOMAIN jobs' :
                 jobs'[a].status = "queued" /\ CreatedBefore(jobs', a, b)]_vars
  /\ [](\A a, b \in DOMAIN jobs :
          (CreatedBefore(jobs, a, b) /\ jobs[b].status \in {"processing", "complete", "error"})
          => jobs[a].status # "queued")

\* Jobs 2 and 3 were created at the same time and waited together behind
\* job 1; job 2, inserted first, runs and job 3 still waits.
C5_Witness ==
  /\ maxConcurrentJobs = 1
  /\ {1, 2, 3} \subseteq DOMAIN jobs
  /\ jobs[1].status \in {"complete", "error"}
  /\ jobs[2].status = "processing"
  /\ jobs[3].status = "queued"
  /\ jobs[2].createdAt = jobs[3].createdAt
  /\ jobs[3].createdAt < jobs[1].completedAt[1]

\* C2 as stated: every processJob call that has returned has called
\* onJobComplete, also the call that did not find the job.
C2_EveryCallNotifies ==
  \A id \in AllIds : run[id].pc = "returned" => run[id].completions >= 1

\* C2, amended: a processJob call that finds its job calls onJobComplete
\* exactly once before it returns, on every path, and its job does not stay
\* processing; a call that does not find the job returns without calling
\* onJobComplete, and no job of that id holds a slot.
C2_FoundCallNotifies ==
  /\ [](\A id \in AllIds :
          run[id].pc = "returned" =>
            IF id \in DOMAIN jobs
            THEN run[id].completions = 1 /\ jobs[id].status \in {"complete", "error"}
            ELSE run[id].completions = 0)
  /\ \A id \in JobIds :
       (run[id].calls > run[id].completions) ~> (run[id].completions = run[id].calls)

\* A run whose transcriber and analyzer both threw has called onJobComplete
\* and returned.
C2_Witness ==
  \E id \in JobIds :
    /\ run[id].pc = "returned"
    /\ run[id].tBranch = "throws"
    /\ run[id].vBranch = "throws"
    /\ run[id].completions = 1

\* C6 as stated: completedAt is non-null exactly for the jobs whose status is
\* complete, error or cancelled.
C6_CompletedAtIffTerminal ==
  \A id \in DOMAIN jobs : (jobs[id].completedAt # NULL) <=> (jobs[id].status \in Terminal)

\* C7: cancelJob returns success exactly for an existing queued job, which it
\* sets to cancelled; for every other id it returns failure and leaves the
\* store as it is.
C7_CancelOnlyQueued ==
  /\ [](\A id \in AllIds :
          LET r == cancelJob(jobs, id, now)
              queued == id \in DOMAIN jobs /\ jobs[id].status = "queued"
          IN  /\ r.ret <=> queued
              /\ queued => r.jobs[id].status = "cancelled"
              /\ ~queued => r.jobs = jobs)
  /\ [][\A id \in AllIds :
          CancelJob(id) =>
            IF id \in DOMAIN jobs /\ jobs[id].status = "queued"
            THEN /\ DOMAIN jobs' = DOMAIN jobs
                 /\ jobs'[id].status = "cancelled"
                 /\ \A j \in DOMAIN jobs \ {id} : jobs'[j] = jobs[j]
            ELSE jobs' = jobs]_vars

\* A queued job was cancelled while another job is processing.
C7_Witness ==
  /\ WithStatus(jobs, "cancelled") # {}
  /\ WithStatus(jobs, "processing") # {}

StatusMoves ==
  {<<"queued", "processing">>, <<"queued", "cancelled">>,
   <<"processing", "complete">>, <<"processing", "error">>}

\* C8: a job's status only changes from queued to processing or cancelled and
\* from processing to complete or error; a job starts queued.
C8_StatusMoves ==
  [][/\ \A id \in DOMAIN jobs :
          /\ id \in DOMAIN jobs'
          /\ jobs'[id].status # jobs[id].status
               => <<jobs[id].status, jobs'[id].status>> \in StatusMoves
     /\ \A id \in DOMAIN jobs' \ DOMAIN jobs :
          jobs'[id].status \in {"queued", "processing"}]_vars

\* A complete, an error and a cancelled job side by side.
C8_Witness ==
  /\ WithStatus(jobs, "complete") # {}
  /\ WithStatus(jobs, "error") # {}
  /\ WithStatus(jobs, "cancelled") # {}

Finished(id) == run[id].pc \in {"finally", "returned"}

\* C9: when the transcription and the visual stage both ended in error, the
\* assembly stage stays pending and the script null, and the job ends with
\* status error and a top-level error tagged "pipeline".
C9_JointFailure ==
  \A id \in DOMAIN jobs :
    (jobs[id].stages.transcription = "error" /\ jobs[id].stages.visual = "error")
    => /\ jobs[id].stages.assembly = "pending"
       /\ jobs[id].script = NULL
       /\ jobs[id].status \in {"processing", "error"}
       /\ Finished(id) => /\ jobs[id].status = "error"
                           /\ jobs[id].error # NULL
                           /\ jobs[id].error[1].stage = "pipeline"

\* A run has ended after both stages failed.
C9_Witness ==
  \E id \in DOMAIN jobs :
    /\ run[id].pc = "returned"
    /\ jobs[id].stages.transcription = "error"
    /\ jobs[id].stages.visual = "error"
    /\ jobs[id].status = "error"

\* C10: when only the analyzer threw and the transcriber succeeded, the job
\* ends complete with a script made from the dialogue entries, visual = error
\* and transcription = complete; and the same with the two stages exchanged.
C10_PartialFailure ==
  \A id \in DOMAIN jobs :
    Finished(id) =>
      /\ (run[id].tBranch = "ok" /\ run[id].vBranch = "throws")
           => /\ jobs[id].status = "complete"
              /\ jobs[id].script # NULL
              /\ jobs[id].script[1].input.dialogueEntries = DialogueResult
              /\ jobs[id].script[1].by = "formatBasicScript"
                   => \E i \in DOMAIN jobs[id].script[1].lines :
                        jobs[id].script[1].lines[i] = DialogueResult[1]
              /\ jobs[id].stages.visual = "error"
              /\ jobs[id].stages.transcription = "complete"
      /\ (run[id].tBranch = "throws" /\ run[id].vBranch = "ok")
           => /\ jobs[id].status = "complete"
              /\ jobs[id].script # NULL
              /\ jobs[id].script[1].input.actionEntries = ActionResult
              /\ jobs[id].script[1].by = "formatBasicScript"
                   => \E i \in DOMAIN jobs[id].script[1].lines :
                        jobs[id].script[1].lines[i] = ActionResult[1]
              /\ jobs[id].stages.transcription = "error"
              /\ jobs[id].stages.visual = "complete"

\* The analyzer threw, the transcriber succeeded, and the job is complete
\* with the script of the fallback formatter.
C10_Witness ==
  \E id \in DOMAIN jobs :
    /\ run[id].pc = "returned"
    /\ run[id].tBranch = "ok"
    /\ run[id].vBranch = "throws"
    /\ jobs[id].status = "complete"
    /\ jobs[id].script[1].by = "formatBasicScript"

\* C11: when the assembler threw, the job is complete, never error, its
\* assembly stage is complete, and its script is the non-empty output of the
\* fallback formatter on the entries the two stages stored on the job.
C11_AssemblyFallback ==
  \A id \in DOMAIN jobs :
    run[id].aBranch = "throws"
    => /\ jobs[id].status = "complete"
       /\ jobs[id].error = NULL
       /\ jobs[id].stages.assembly = "complete"
       /\ jobs[id].script # NULL
       /\ jobs[id].script[1].by = "formatBasicScript"
       /\ Len(jobs[id].script[1].lines) > 0
       /\ jobs[id].script[1] = formatBasicScript(jobs[id].script[1].input)
       /\ jobs[id].script[1].input.dialogueEntries
            = jobs[id].transcription[1].dialogueEntries
       /\ jobs[id].script[1].input.actionEntries
            = jobs[id].visualAnalysis[1].actionEntries

\* The assembler threw after both stages delivered entries, and the call has
\* returned.
C11_Witness ==
  \E id \in DOMAIN jobs :
    /\ run[id].pc = "returned"
    /\ run[id].aBranch = "throws"
    /\ run[id].tBranch = "ok"
    /\ run[id].vBranch = "ok"
    /\ jobs[id].status = "complete"

\* C12: when the downloader threw, the download stage and the job are in
\* error and nothing downstream ran: no extraction, no transcription, no
\* visual analysis, no assembly; the three later stages are pending and the
\* metadata null.
C12_DownloadFatal ==
  \A id \in DOMAIN jobs :
    run[id].dBranch = "throws"
    => /\ jobs[id].stages.download = "error"
       /\ jobs[id].status = "error"
       /\ run[id].pc \in {"finally", "returned"}
       /\ run[id].tBranch = "none"
       /\ run[id].vBranch = "none"
       /\ run[id].aBranch = "none"
       /\ jobs[id].stages.transcription = "pending"
       /\ jobs[id].stages.visual = "pending"
       /\ jobs[id].stages.assembly = "pending"
       /\ jobs[id].metadata = NULL
       /\ jobs[id].transcription = NULL
       /\ jobs[id].visualAnalysis = NULL
       /\ jobs[id].script = NULL

\* The call of a job whose download failed has returned.
C12_Witness ==
  \E id \in DOMAIN jobs :
    /\ run[id].pc = "returned"
    /\ run[id].dBranch = "throws"
    /\ jobs[id].videoUrl # NULL

\* C13: a run never ends with its job still processing, and every job that
\* is processing eventually is complete or in error.
C13_ProcessingTerminates ==
  /\ [](\A id \in DOMAIN jobs :
          Finished(id) => jobs[id].status \in {"complete", "error"})
  /\ \A id \in JobIds :
       (id \in DOMAIN jobs /\ jobs[id].status = "processing")
       ~> (id \in DOMAIN jobs /\ jobs[id].status \in {"complete", "error"})

\* A job is processing with both fan-out branches in flight.
C13_Witness ==
  \E id \in DOMAIN jobs :
    /\ jobs[id].status = "processing"
    /\ run[id].pc = "fanout"
    /\ run[id].tBranch = "calling"
    /\ run[id].vBranch = "calling"

\* C14: a sweep at time now removes exactly the terminal jobs created more
\* than the expiry window before now: a terminal job of age window - 1 or
\* exactly window stays, one of age window + 1 goes; the sweep returns the
\* number of jobs it removed and leaves the other jobs as they were.
C14_SweepBoundary ==
  /\ [](LET r == cleanExpiredJobs(jobs, now) IN
          /\ DOMAIN r.jobs \subseteq DOMAIN jobs
          /\ r.cleaned = Cardinality(DOMAIN jobs \ DOMAIN r.jobs)
          /\ \A id \in DOMAIN jobs :
               /\ id \notin DOMAIN r.jobs
                    <=> /\ jobs[id].status \in {"complete", "error", "cancelled"}
                        /\ now - jobs[id].createdAt > JOB_EXPIRY_MS
               /\ id \in DOMAIN r.jobs => r.jobs[id] = jobs[id]
               /\ jobs[id].status \in {"complete", "error", "cancelled"}
                    => /\ now = jobs[id].createdAt + JOB_EXPIRY_MS - 1
                            => id \in DOMAIN r.jobs
                       /\ now = jobs[id].createdAt + JOB_EXPIRY_MS
                            => id \in DOMAIN r.jobs
                       /\ now = jobs[id].createdAt + JOB_EXPIRY_MS + 1
                            => id \notin DOMAIN r.jobs)
  /\ [][\A id \in DOMAIN jobs :
          id \notin DOMAIN jobs'
          => /\ jobs[id].status \in {"complete", "error", "cancelled"}
             /\ now - jobs[id].createdAt > JOB_EXPIRY_MS
             /\ jobs' = cleanExpiredJobs(jobs, now).jobs]_vars

\* A sweep one millisecond past the window of the first job has removed it
\* and kept a finished job whose age is exactly the window.
C14_Witness ==
  /\ nextId = 3
  /\ 1 \notin DOMAIN jobs
  /\ 2 \in DOMAIN jobs
  /\ jobs[2].status \in Terminal
  /\ now = jobs[2].createdAt + JOB_EXPIRY_MS
  /\ cleanExpiredJobs(jobs, now).cleaned = 0

\* The queued jobs that are ordered before id: created earlier, or in the
\* same millisecond and inserted earlier.
QueuedBefore(s, id) == {o \in WithStatus(s, "queued") : CreatedBefore(s, o, id)}

\* C15: getQueuePosition(id) is 1 plus the number of queued jobs ordered
\* before id when id is queued, and -1 when id is processing, terminal or
\* unknown; when earlier queued jobs are cancelled or started, the position
\* of a job that stays queued goes down by one for each of them.
C15_QueuePosition ==
  /\ [](\A id \in AllIds :
          getQueuePosition(jobs, id)
            = IF id \in DOMAIN jobs /\ jobs[id].status = "queued"
              THEN 1 + Cardinality(QueuedBefore(jobs, id))
              ELSE -1)
  /\ [][\A b \in DOMAIN jobs :
          (jobs[b].status = "queued" /\ jobs'[b].status = "queued")
          => getQueuePosition(jobs', b)
               = getQueuePosition(jobs, b)
                 - Cardinality({a \in QueuedBefore(jobs, b) :
                                  jobs'[a].status \in {"cancelled", "processing"}})]_vars

\* The third job is first in the queue after the second, created before it,
\* was cancelled; the first job holds the only slot.
C15_Witness ==
  /\ DOMAIN jobs = {1, 2, 3}
  /\ jobs[1].status = "processing"
  /\ jobs[2].status = "cancelled"
  /\ jobs[3].status = "queued"
  /\ getQueuePosition(jobs, 3) = 1
  /\ getQueuePosition(jobs, 2) = -1

\* The jobs that count against the admission ceiling.
InFlight(s) == WithStatus(s, "queued") \cup WithStatus(s, "processing")

\* C16: canEnqueue() is true exactly when queued + processing is below
\* config.maxQueueSize, and with both submit routes testing it before they
\* create a job, queued + processing never exceeds config.maxQueueSize.
C16_AdmissionCeiling ==
  /\ canEnqueue(jobs) <=> Cardinality(InFlight(jobs)) < maxQueueSize
  /\ Cardinality(InFlight(jobs)) <= maxQueueSize

\* The ceiling is reached with a job waiting, and a further submission,
\* which the routes would still accept by count, is refused.
C16_Witness ==
  /\ maxQueueSize = 2
  /\ Cardinality(InFlight(jobs)) = 2
  /\ WithStatus(jobs, "queued") # {}
  /\ nextId <= MaxAdmitJobs
  /\ ~canEnqueue(jobs)

\* The moments a store function is called at.
StoreTimes == {now, now + 1}

\* s2 leaves the status and the completion time of id as they are in s.
SameStatus(s, s2, id) ==
  /\ s2[id].status = s[id].status
  /\ s2[id].completedAt = s[id].completedAt

\* C17: setJobError on a job of the store leaves it with status error, the
\* given error record and completedAt set, whatever its status was; and
\* updateJobStage, setJobMetadata, setJobTranscription, setJobVisualAnalysis
\* and setJobScript leave status and completedAt as they were.
C17_OnlySetJobErrorForcesStatus ==
  \A id \in DOMAIN jobs :
    /\ \A t \in StoreTimes :
         LET s2 == setJobError(jobs, id, StoreError, t) IN
         /\ s2[id].status = "error"
         /\ s2[id].error = Some(StoreError)
         /\ s2[id].completedAt = Some(t)
    /\ \A stage \in StageNames, stageStatus \in StageStatus :
         SameStatus(jobs, updateJobStage(jobs, id, stage, stageStatus), id)
    /\ SameStatus(jobs, setJobMetadata(jobs, id, StoreMetadata), id)
    /\ SameStatus(jobs, setJobTranscription(jobs, id, StoreTranscription), id)
    /\ SameStatus(jobs, setJobVisualAnalysis(jobs, id, StoreVisualAnalysis), id)
    /\ SameStatus(jobs, setJobScript(jobs, id, StoreScript), id)

\* setJobError has been called on a job that has its artifacts and a
\* complete assembly stage, and the job is in error.
C17_Witness ==
  \E id \in DOMAIN jobs :
    /\ jobs[id].status = "error"
    /\ jobs[id].error = Some(StoreError)
    /\ jobs[id].completedAt # NULL
    /\ jobs[id].script # NULL
    /\ jobs[id].stages.assembly = "complete"

\* C18: every mutator called with an id that is not in the store returns
\* normally and leaves the store as it was: no job appears, none changes.
C18_UnknownIdNoOp ==
  \A id \in AllIds \ DOMAIN jobs :
    /\ \A status \in JobStatus, t \in StoreTimes :
         updateJobStatus(jobs, id, status, t) = jobs
    /\ \A stage \in StageNames, stageStatus \in StageStatus :
         updateJobStage(jobs, id, stage, stageStatus) = jobs
    /\ setJobMetadata(jobs, id, StoreMetadata) = jobs
    /\ setJobTranscription(jobs, id, StoreTranscription) = jobs
    /\ setJobVisualAnalysis(jobs, id, StoreVisualAnalysis) = jobs
    /\ setJobScript(jobs, id, StoreScript) = jobs
    /\ \A t \in StoreTimes : setJobError(jobs, id, StoreError, t) = jobs

\* The store holds a job that the mutators have written to, and ids that
\* are not in it.
C18_Witness ==
  /\ DOMAIN jobs # {}
  /\ JobIds \ DOMAIN jobs # {}
  /\ \E id \in DOMAIN jobs : jobs[id].status = "processing" /\ jobs[id].metadata # NULL

\* C19: every job of the store has exactly one of videoUrl and filePath.
C19_OneSource ==
  \A id \in DOMAIN jobs : (jobs[id].videoUrl = NULL) # (jobs[id].filePath = NULL)

\* An uploaded job, with a path and no URL, has been driven to its end.
C19_Witness ==
  \E id \in DOMAIN jobs :
    /\ jobs[id].filePath # NULL
    /\ jobs[id].videoUrl = NULL
    /\ jobs[id].status = "complete"

\* What createJob promises of the job it returns.
Fresh(job, filePath) ==
  /\ job.status = "queued"
  /\ job.completedAt = NULL
  /\ job.error = NULL
  /\ job.metadata = NULL
  /\ job.transcription = NULL
  /\ job.visualAnalysis = NULL
  /\ job.script = NULL
  /\ job.stages.transcription = "pending"
  /\ job.stages.visual = "pending"
  /\ job.stages.assembly = "pending"
  /\ job.stages.download = IF filePath # NULL THEN "skipped" ELSE "pending"
  /\ job.filePath = filePath

\* C20: the job createJob returns is queued, with completedAt, error and all
\* artifacts null, the transcription, visual and assembly stages pending, and
\* the download stage skipped when it has a file path and pending otherwise.
C20_FreshJob ==
  /\ [](\A videoUrl \in {NULL, Some("url")}, filePath \in {NULL, Some("file")} :
          Fresh(createJob(jobs, nextId, "upload", videoUrl, filePath, now)[nextId],
                filePath))
  /\ [][nextId' # nextId
        => /\ Fresh(jobs'[nextId], jobs'[nextId].filePath)
           /\ \A id \in DOMAIN jobs : jobs'[id] = jobs[id]]_vars

\* A job created from a file path is in the store as createJob returned it.
C20_Witness ==
  /\ nextId = 2
  /\ jobs[1].filePath # NULL
  /\ jobs[1].stages.download = "skipped"
  /\ jobs[1].status = "queued"
  /\ jobs[1].script = NULL

\* C21: a cancelled job is never started: processJob was never called for
\* it, its stages are as createJob left them, and no later step, a freed
\* slot and tryStartNext included, changes its status or its stages.
C21_CancelledNeverStarts ==
  /\ [](\A id \in DOMAIN jobs :
          jobs[id].status = "cancelled"
          => /\ run[id].calls = 0
             /\ run[id].pc = "idle"
             /\ jobs[id].stages
                  = createJob(<<>>, id, jobs[id].platform, jobs[id].videoUrl,
                              jobs[id].filePath, jobs[id].createdAt)[id].stages)
  /\ [][\A id \in DOMAIN jobs :
          jobs[id].status = "cancelled"
          => /\ jobs'[id].status = "cancelled"
             /\ jobs'[id].stages = jobs[id].stages
             /\ run'[id] = run[id]]_vars

\* The second job was cancelled while it waited; the first has finished
\* since, and the freed slot went to the third job.
C21_Witness ==
  /\ DOMAIN jobs = {1, 2, 3}
  /\ maxConcurrentJobs = 1
  /\ jobs[2].status = "cancelled"
  /\ run[1].pc = "returned"
  /\ run[1].completions = 1
  /\ jobs[3].status \in {"processing", "complete", "error"}
  /\ jobs[3].createdAt >= jobs[2].createdAt

\* A stage status that ends a fan-out stage.
StageDone == {"complete", "skipped", "error"}

\* C22: within a job the transcription and the visual stage leave pending
\* only with the download stage complete or skipped, and the assembly stage
\* leaves pending only with the transcription and the visual stage each
\* complete, skipped or in error.
C22_StageOrder ==
  /\ [](\A id \in DOMAIN jobs :
          /\ (jobs[id].stages.transcription # "pending" \/ jobs[id].stages.visual # "pending")
               => jobs[id].stages.download \in {"complete", "skipped"}
          /\ jobs[id].stages.assembly # "pending"
               => /\ jobs[id].stages.transcription \in StageDone
                  /\ jobs[id].stages.visual \in StageDone)
  /\ [][\A id \in DOMAIN jobs :
          /\ (jobs[id].stages.transcription = "pending"
               /\ jobs'[id].stages.transcription # "pending")
               => /\ jobs'[id].stages.transcription = "in_progress"
                  /\ jobs'[id].stages.visual = "in_progress"
                  /\ jobs'[id].stages.download \in {"complete", "skipped"}
          /\ (jobs[id].stages.assembly = "pending"
               /\ jobs'[id].stages.assembly # "pending")
               => /\ jobs'[id].stages.assembly = "in_progress"
                  /\ jobs[id].stages.transcription \in StageDone
                  /\ jobs[id].stages.visual \in StageDone]_vars

\* A downloaded job is in assembly after one branch failed and the other
\* was skipped.
C22_Witness ==
  \E id \in DOMAIN jobs :
    /\ jobs[id].stages.download = "complete"
    /\ jobs[id].stages.assembly = "in_progress"
    /\ jobs[id].stages.transcription = "error"
    /\ jobs[id].stages.visual = "skipped"

\* The fan-out of id has begun and one of its branches has not finished.
FanoutOpen(id) ==
  /\ run[id].tBranch # "none"
  /\ run[id].tBranch \notin Settled \/ run[id].vBranch \notin Settled

\* C23: when the transcriber (the analyzer) throws, its stage is in error
\* with a stage error on record and the other branch is untouched and goes
\* on; until both branches have finished the call stays at the join: no
\* joint-failure decision, no assembly, no terminal status.
C23_BranchFailureIsolated ==
  /\ [](\A id \in DOMAIN jobs :
          /\ run[id].tBranch = "throws"
               => /\ jobs[id].stages.transcription = "error"
                  /\ \E e \in jobs[id].stageErrors : e[1] = "transcription"
          /\ run[id].vBranch = "throws"
               => /\ jobs[id].stages.visual = "error"
                  /\ \E e \in jobs[id].stageErrors : e[1] = "visual"
          /\ FanoutOpen(id)
               => /\ run[id].pc = "fanout"
                  /\ jobs[id].status = "processing"
                  /\ jobs[id].error = NULL
                  /\ jobs[id].stages.assembly = "pending")
  /\ [][\A id \in DOMAIN jobs :
          /\ (run[id].tBranch = "calling" /\ run'[id].tBranch = "throws")
               => /\ run'[id].vBranch = run[id].vBranch
                  /\ jobs'[id].stages.visual = jobs[id].stages.visual
          /\ (run[id].vBranch = "calling" /\ run'[id].vBranch = "throws")
               => /\ run'[id].tBranch = run[id].tBranch
                  /\ jobs'[id].stages.transcription = jobs[id].stages.transcription
          /\ (run[id].tBranch = "throws" /\ run[id].vBranch = "calling")
               => run'[id].vBranch \in {"calling", "ok", "throws"}
          /\ (run[id].vBranch = "throws" /\ run[id].tBranch = "calling")
               => run'[id].tBranch \in {"calling", "ok", "throws"}]_vars

\* The transcriber threw while the analyzer was in flight, and the analyzer
\* has delivered its result since; the call waits at the join.
C23_Witness ==
  \E id \in DOMAIN jobs :
    /\ run[id].pc = "fanout"
    /\ run[id].tBranch = "throws"
    /\ run[id].vBranch = "ok"
    /\ jobs[id].stages.transcription = "error"
    /\ jobs[id].stages.visual = "complete"
    /\ jobs[id].status = "processing"

\* C24: when extractAudio reported no audio the transcriber is not called:
\* the transcription branch only skips, its stage is never error and is
\* skipped once the branch has run, with no stage error on record; the same
\* for the analyzer and the visual stage when sampleFrames returned no frame.
C24_SkippedNotAttempted ==
  \A id \in DOMAIN jobs :
    /\ run[id].audioResult = Some(FALSE)
         => /\ run[id].tBranch \in {"skipping", "skipped"}
            /\ ~run[id].transcriptionFailed
            /\ run[id].dialogueEntries = <<>>
            /\ jobs[id].stages.transcription
                  = (IF run[id].tBranch = "skipping" THEN "in_progress" ELSE "skipped")
            /\ \A e \in jobs[id].stageErrors : e[1] # "transcription"
    /\ run[id].frameResult = Some("none")
         => /\ run[id].vBranch \in {"skipping", "skipped"}
            /\ ~run[id].visualFailed
            /\ run[id].actionEntries = <<>>
            /\ jobs[id].stages.visual
                  = (IF run[id].vBranch = "skipping" THEN "in_progress" ELSE "skipped")
            /\ \A e \in jobs[id].stageErrors : e[1] # "visual"

\* A call has returned for a video without audio whose sampling gave no
\* frame: both stages are skipped.
C24_Witness ==
  \E id \in DOMAIN jobs :
    /\ run[id].pc = "returned"
    /\ run[id].audioResult = Some(FALSE)
    /\ run[id].frameResult = Some("none")
    /\ jobs[id].stages.transcription = "skipped"
    /\ jobs[id].stages.visual = "skipped"

\* C25: once both fan-out branches have finished and the call has passed the
\* join, the job is aborted (status error, assembly never started) exactly
\* when both stages are error; with any other pair of outcomes among
\* complete, skipped and error, assembly has started, and when the call is
\* over the job is complete with a script and no top-level error.
C25_JointFailureOnly ==
  \A id \in DOMAIN jobs :
    (/\ run[id].tBranch \in Settled
     /\ run[id].vBranch \in Settled
     /\ run[id].pc \in {"assembly", "finally", "returned"})
    => LET t == jobs[id].stages.transcription
           v == jobs[id].stages.visual
       IN  /\ t \in StageDone
           /\ v \in StageDone
           /\ jobs[id].status = "error" <=> (t = "error" /\ v = "error")
           /\ (t = "error" /\ v = "error")
                => /\ jobs[id].stages.assembly = "pending"
                   /\ jobs[id].error # NULL
                   /\ jobs[id].script = NULL
           /\ ~(t = "error" /\ v = "error")
                => /\ jobs[id].error = NULL
                   /\ IF run[id].pc = "assembly"
                      THEN /\ jobs[id].status = "processing"
                           /\ jobs[id].stages.assembly = "in_progress"
                      ELSE /\ jobs[id].status = "complete"
                           /\ jobs[id].stages.assembly = "complete"
                           /\ jobs[id].script # NULL

\* A call is over whose transcriber threw and whose sampling gave no frame:
\* the job is complete.
C25_Witness ==
  \E id \in DOMAIN jobs :
    /\ run[id].pc = "returned"
    /\ jobs[id].stages.transcription = "error"
    /\ jobs[id].stages.visual = "skipped"
    /\ jobs[id].stages.assembly = "complete"
    /\ jobs[id].status = "complete"

\* The stage status a fan-out branch in state b has written.
BranchStage(b) ==
  CASE b = "ok" -> "complete"
    [] b = "throws" -> "error"
    [] b = "skipped" -> "skipped"
    [] OTHER -> "in_progress"

\* C26: from the start of the fan-out on, the transcription stage shows what
\* the transcription branch has done and the visual stage what the visual
\* branch has done, whichever finished first; the step in which one branch
\* finishes changes that branch's stage and no other entry of the stage map.
C26_DisjointStageWriters ==
  /\ [](\A id \in DOMAIN jobs :
          run[id].tBranch # "none"
          => /\ jobs[id].stages.transcription = BranchStage(run[id].tBranch)
             /\ jobs[id].stages.visual = BranchStage(run[id].vBranch))
  /\ [][\A id \in DOMAIN jobs :
          /\ (run[id].tBranch \notin Settled /\ run'[id].tBranch \in Settled)
               => jobs'[id].stages
                    = [jobs[id].stages EXCEPT !.transcription = BranchStage(run'[id].tBranch)]
          /\ (run[id].vBranch \notin Settled /\ run'[id].vBranch \in Settled)
               => jobs'[id].stages
                    = [jobs[id].stages EXCEPT !.visual = BranchStage(run'[id].vBranch)]]_vars

\* The analyzer has thrown while the transcriber is in flight: the visual
\* stage is error and the transcription stage still in progress.
C26_Witness ==
  \E id \in DOMAIN jobs :
    /\ run[id].pc = "fanout"
    /\ run[id].vBranch = "throws"
    /\ run[id].tBranch = "calling"
    /\ jobs[id].stages.visual = "error"
    /\ jobs[id].stages.transcription = "in_progress"

\* The video file of job id has been available: uploaded with the request, or
\* downloaded by the call.
VideoAvailable(id) == jobs[id].filePath # NULL \/ run[id].dBranch = "ok"

\* C27: a job whose video file has been available and whose status is
\* terminal has no video file left in the temp directory: the unlink has
\* been done by then, also when the extraction threw.
C27_VideoDeletedAtTerminal ==
  \A id \in DOMAIN jobs :
    (VideoAvailable(id) /\ jobs[id].status \in Terminal)
    => \A f \in files : ~(f.job = id /\ f.name = "video")

\* The text of the exception that ended the call of job id.
ExceptionText(id) ==
  IF run[id].dBranch = "throws" THEN "download failed"
  ELSE IF jobs[id].stages.transcription = "error" /\ jobs[id].stages.visual = "error"
  THEN "Both transcription and visual analysis failed"
  ELSE "frame sampling failed"

\* C28: a job in error has one top-level error: stage tag "pipeline", the
\* exception's text as message and the same user message whatever failed.
\* The step that puts the job in error calls cleanupAudio and cleanupFrames
\* once each and does not call onJobComplete; onJobComplete comes in a later
\* step, so both cleanups have been called when it is.
C28_ErrorRecordAndCleanup ==
  /\ [](\A id \in DOMAIN jobs :
          jobs[id].status = "error"
          => /\ jobs[id].error
                  = Some([stage |-> "pipeline", message |-> ExceptionText(id),
                          userMessage |-> "Something went wrong while analyzing this video."])
             /\ run[id].audioCleanups >= 1
             /\ run[id].frameCleanups >= 1
             /\ run[id].completions <= 1
             /\ run[id].completions = 0 <=> run[id].pc = "finally")
  /\ [][\A id \in DOMAIN jobs :
          /\ (jobs[id].status # "error" /\ jobs'[id].status = "error")
               => /\ run'[id].audioCleanups = run[id].audioCleanups + 1
                  /\ run'[id].frameCleanups = run[id].frameCleanups + 1
                  /\ run'[id].completions = run[id].completions
                  /\ run'[id].pc = "finally"
          /\ (jobs[id].status = "error" /\ run'[id].completions # run[id].completions)
               => /\ run'[id].audioCleanups = run[id].audioCleanups
                  /\ run'[id].frameCleanups = run[id].frameCleanups
                  /\ jobs'[id].error = jobs[id].error]_vars

\* A call whose frame sampling threw is over: the job is in error with the
\* sampling's message, both cleanups were called once, then onJobComplete.
C28_Witness ==
  \E id \in DOMAIN jobs :
    /\ run[id].pc = "returned"
    /\ jobs[id].status = "error"
    /\ jobs[id].error # NULL
    /\ jobs[id].error[1].message = "frame sampling failed"
    /\ run[id].audioCleanups = 1
    /\ run[id].frameCleanups = 1
    /\ run[id].completions = 1

\* Times of a sweep up to ten expiry windows after the present.
LateTimes == {now + k * JOB_EXPIRY_MS + d : k \in {0, 1, 10}, d \in {0, 1}}

\* C29: a sweep, however late it runs, keeps every queued and every
\* processing job, and every job it keeps is the record it was; in every step
\* of the server a queued or processing job stays in the store.
C29_SweepSparesLiveJobs ==
  /\ [](\A t \in LateTimes :
          LET r == cleanExpiredJobs(jobs, t).jobs IN
          /\ \A id \in DOMAIN jobs :
               jobs[id].status \in {"queued", "processing"} => id \in DOMAIN r
          /\ \A id \in DOMAIN r : id \in DOMAIN jobs /\ r[id] = jobs[id])
  /\ [][/\ \A id \in DOMAIN jobs :
            jobs[id].status \in {"queued", "processing"} => id \in DOMAIN jobs'
        /\ (DOMAIN jobs' # DOMAIN jobs /\ DOMAIN jobs' \subseteq DOMAIN jobs)
             => \A id \in DOMAIN jobs' : jobs'[id] = jobs[id]]_vars

\* A sweep has removed the first job while the second, as old and past the
\* window, is still processing.
C29_Witness ==
  /\ 1 \notin DOMAIN jobs
  /\ 2 \in DOMAIN jobs
  /\ jobs[2].status = "processing"
  /\ now - jobs[2].createdAt > JOB_EXPIRY_MS

\* The entries of the temp directory that are files last modified more than
\* the expiry window before t.
OldFiles(t) == {f \in files : ~IsDirectory(f) /\ t - f.mtime > JOB_EXPIRY_MS}

\* The job sweep at time t, on the store of W.
JobSweep(W, t) == [W EXCEPT !.jobs = cleanExpiredJobs(@, t).jobs]

C31_CompletedAtWrittenOnce ==
  [][\A id \in DOMAIN jobs :
       id \in DOMAIN jobs'
       => /\ jobs[id].completedAt # NULL
               => jobs'[id].completedAt = jobs[id].completedAt
          /\ (jobs[id].completedAt = NULL /\ jobs'[id].completedAt # NULL)
               => /\ jobs'[id].completedAt = Some(now)
                  /\ jobs[id].status = "processing"
                  /\ jobs'[id].status \in {"complete", "error"}]_vars

\* The first job finished at time 0 and its call has returned; the clock
\* has moved on and a later job is processing.
C31_Witness ==
  /\ {1, 2} \subseteq DOMAIN jobs
  /\ jobs[1].completedAt = Some(0)
  /\ run[1].pc = "returned"
  /\ now > 0
  /\ jobs[2].status = "processing"
  /\ jobs[2].completedAt = NULL

\* C32: an artifact of a job is set only when the stage that makes it is
\* complete: the transcription with the transcription stage, the visual
\* analysis with the visual stage, the script with the assembly stage.
C32_ArtifactsAfterStage ==
  \A id \in DOMAIN jobs :
    /\ jobs[id].transcription # NULL => jobs[id].stages.transcription = "complete"
    /\ jobs[id].visualAnalysis # NULL => jobs[id].stages.visual = "complete"
    /\ jobs[id].script # NULL => jobs[id].stages.assembly = "complete"

\* C33: a job with a local file never has downloadVideo called and its
\* download stage is skipped from its creation on.  A job with a URL has
\* downloadVideo called once, with its id and URL, when its call starts, and
\* not before; when the download succeeded the download stage is complete
\* and the metadata is on record, and no extraction is under way without the
\* metadata on record.
C33_DownloadOnlyForUrl ==
  \A id \in DOMAIN jobs :
    /\ jobs[id].filePath # NULL
         => /\ run[id].downloads = <<>>
            /\ run[id].dBranch = "none"
            /\ run[id].pc # "download"
            /\ jobs[id].stages.download = "skipped"
    /\ jobs[id].filePath = NULL
         => /\ run[id].downloads
                 = (IF run[id].calls = 0 THEN <<>> ELSE << <<id, jobs[id].videoUrl>> >>)
            /\ jobs[id].stages.download # "skipped"
    /\ run[id].dBranch = "ok"
         => /\ jobs[id].stages.download = "complete"
            /\ jobs[id].metadata # NULL
            /\ jobs[id].metadata[1].sourceUrl = jobs[id].videoUrl
    /\ run[id].pc \in {"extract", "fanout", "assembly"}
         => /\ jobs[id].metadata # NULL
            /\ jobs[id].stages.download \in {"complete", "skipped"}

\* A URL job is under extraction after its one download while an uploaded
\* job waits in the queue, its download stage skipped.
C33_Witness ==
  \E a, b \in DOMAIN jobs :
    /\ jobs[a].filePath = NULL
    /\ run[a].pc = "extract"
    /\ Len(run[a].downloads) = 1
    /\ jobs[a].stages.download = "complete"
    /\ jobs[b].filePath # NULL
    /\ jobs[b].status = "queued"
    /\ jobs[b].stages.download = "skipped"

\* The call of processJob(id) is between two of its awaits, or before its
\* finally block.
Running(id) == run[id].pc \in {"download", "probe", "extract", "fanout", "assembly", "finally"}

\* C34: a step of the pipeline run of job a leaves the record and the run of
\* every other job as they were, with one exception: the finally step of a
\* may start the oldest queued job, which becomes processing with its own
\* run begun, and then all jobs but that one are untouched.
C34_NoInterference ==
  [][\A a \in DOMAIN jobs :
       (Running(a) /\ run'[a] # run[a])
       => \/ \A b \in DOMAIN jobs \ {a} : jobs'[b] = jobs[b] /\ run'[b] = run[b]
          \/ /\ run[a].pc = "finally"
             /\ jobs'[a] = jobs[a]
             /\ getQueuedJobs(jobs) # <<>>
             /\ LET b == getQueuedJobs(jobs)[1] IN
                  /\ jobs'[b].status = "processing"
                  /\ run[b].calls = 0
                  /\ run'[b].calls = 1
                  /\ \A c \in DOMAIN jobs \ {a, b} :
                       jobs'[c] = jobs[c] /\ run'[c] = run[c]]_vars

\* Two jobs are processing at once, one waiting for its download and the
\* other for its assembly.
C34_Witness ==
  \E a, b \in DOMAIN jobs :
    /\ jobs[a].status = "processing"
    /\ jobs[b].status = "processing"
    /\ run[a].pc = "assembly"
    /\ run[b].pc = "download"
    /\ jobs[a].stages.assembly = "in_progress"
    /\ jobs[b].stages.assembly = "pending"

\* C35: between the handlers of the server (no call is between its catch and
\* its finally block), if a job is queued then exactly maxConcurrentJobs
\* jobs are processing.
C35_WorkConserving ==
  (Turn = {} /\ WithStatus(jobs, "queued") # {})
  => Cardinality(WithStatus(jobs, "processing")) = maxConcurrentJobs

\* With one slot: the first run is over and has handed its slot to the
\* second job, which is processing while the third waits.
C35_Witness ==
  /\ maxConcurrentJobs = 1
  /\ Turn = {}
  /\ DOMAIN jobs = {1, 2, 3}
  /\ run[1].pc = "returned"
  /\ jobs[2].status = "processing"
  /\ run[2].calls = 1
  /\ jobs[3].status = "queued"

\* C36: every processing job has a run of processJob that was started for it
\* and has not reached onJobComplete, whether or not a callback was
\* registered when tryStartNext picked the job.
C36_ProcessingHasRun ==
  \A id \in DOMAIN jobs :
    jobs[id].status = "processing"
    => /\ run[id].calls = 1
       /\ run[id].completions = 0
       /\ run[id].pc \in {"download", "probe", "extract", "fanout", "assembly"}

\* C37: for every job the callback is invoked once at most and onJobComplete
\* is called once at most, and only after the callback: a step that invokes
\* the callback for a job takes it, new or queued and never run, to
\* processing.
C37_RunOnceCompleteOnce ==
  /\ [](\A id \in JobIds :
          /\ run[id].calls <= 1
          /\ run[id].completions <= run[id].calls)
  /\ [][\A id \in JobIds :
          /\ run'[id].calls # run[id].calls
               => /\ run[id].calls = 0
                  /\ run'[id].calls = 1
                  /\ id \in DOMAIN jobs => jobs[id].status = "queued"
                  /\ id \in DOMAIN jobs'
                  /\ jobs'[id].status = "processing"
          /\ run'[id].completions # run[id].completions
               => /\ run[id].completions = 0
                  /\ run'[id].completions = 1
                  /\ run[id].pc = "finally"
                  /\ run'[id].pc = "returned"]_vars

\* Three jobs, one slot: the first was run and reported once, the second
\* was cancelled in the queue and never run, the third is being run.
C37_Witness ==
  /\ DOMAIN jobs = {1, 2, 3}
  /\ run[1].calls = 1
  /\ run[1].completions = 1
  /\ jobs[2].status = "cancelled"
  /\ run[2].calls = 0
  /\ run[3].calls = 1
  /\ run[3].completions = 0

\* C38: when the finally block of processJob(id) is about to call
\* onJobComplete(id), job id is complete or in error; so in the step of
\* that call id is not among the active jobs, and when a job is queued and
\* fewer than maxConcurrentJobs others are processing, the oldest queued job
\* is started.
C38_TerminalBeforeNotify ==
  /\ [](\A id \in JobIds :
          run[id].pc = "finally"
          => /\ id \in DOMAIN jobs
             /\ jobs[id].status \in {"complete", "error"}
             /\ jobs[id].completedAt # NULL)
  /\ [][\A id \in JobIds :
          run'[id].completions # run[id].completions
          => /\ jobs[id].status \in {"complete", "error"}
             /\ jobs'[id] = jobs[id]
             /\ getActiveJobCount(jobs) = Cardinality(WithStatus(jobs, "processing") \ {id})
             /\ (getQueuedJobs(jobs) # <<>> /\ getActiveJobCount(jobs) < maxConcurrentJobs)
                  => jobs'[getQueuedJobs(jobs)[1]].status = "processing"]_vars

\* With one slot: the run of the first job has just put it in error and
\* is about to call onJobComplete, while the second job waits in the queue.
C38_Witness ==
  /\ maxConcurrentJobs = 1
  /\ {1, 2} \subseteq DOMAIN jobs
  /\ run[1].pc = "finally"
  /\ jobs[1].status = "error"
  /\ jobs[2].status = "queued"

\* C39: a job that is complete or in error and for which onJobComplete has
\* been called has no fan-out branch in flight, and no step of the server
\* writes its record or moves its run again.
C39_NoWriteAfterCompletion ==
  /\ [](\A id \in DOMAIN jobs :
          run[id].completions >= 1
          => /\ jobs[id].status \in {"complete", "error"}
             /\ run[id].pc = "returned"
             /\ run[id].tBranch \in Settled \cup {"none"}
             /\ run[id].vBranch \in Settled \cup {"none"}
             /\ run[id].tBranch = "none" <=> run[id].vBranch = "none")
  /\ [][\A id \in DOMAIN jobs :
          run[id].completions >= 1
          => /\ id \in DOMAIN jobs'
             /\ jobs'[id] = jobs[id]
             /\ run'[id] = run[id]]_vars

\* Both branches of a job threw, its call is over and was reported, and
\* the clock has moved on since.
C39_Witness ==
  \E id \in DOMAIN jobs :
    /\ run[id].completions = 1
    /\ run[id].tBranch = "throws"
    /\ run[id].vBranch = "throws"
    /\ jobs[id].status = "error"
    /\ jobs[id].completedAt # NULL
    /\ now > jobs[id].completedAt[1]

\* C40: a complete job has a script, its assembly stage complete and no
\* top-level error; a job in error has a top-level error and no script.
C40_StatusMatchesOutcome ==
  \A id \in DOMAIN jobs :
    /\ jobs[id].status = "complete"
         => /\ jobs[id].script # NULL
            /\ jobs[id].stages.assembly = "complete"
            /\ jobs[id].error = NULL
    /\ jobs[id].status = "error"
         => /\ jobs[id].error # NULL
            /\ jobs[id].script = NULL
            /\ jobs[id].stages.assembly = "pending"

\* The assembler has answered for a job whose two stages succeeded: the job
\* is complete with the script, before its run reports completion.
C40_Witness ==
  \E id \in DOMAIN jobs :
    /\ run[id].pc = "finally"
    /\ run[id].aBranch = "ok"
    /\ jobs[id].status = "complete"
    /\ jobs[id].script # NULL
    /\ jobs[id].error = NULL

====
